---- MODULE Spec2Model ----
(***************************************************************************)
(* A model of the text pipeline of ebook2audiobook: the sentence segmenter *)
(* (lib/text/sentence_splitter.py), the roman-numeral converter            *)
(* (lib/text/number_converter.py), the chapter filter                      *)
(* (lib/text/processor.py) and the chapter loop (lib/ebook/extractor.py).  *)
(*                                                                         *)
(* A text is a sequence of one-character strings.  The character "~"       *)
(* stands for the marker delimiter U+2021 (double dagger), and "^" for the *)
(* em dash of a table line.                                                *)
(***************************************************************************)
EXTENDS Integers, Sequences, FiniteSets, TLC

VARIABLES
    seg_pc, seg_text, seg_lang, seg_out,      \* get_sentences
    rom_pc, rom_text, rom_out,                \* roman2number
    f_pc, f_doc, f_lang, f_stanza, f_compat,  \* filter_chapter: position, arguments
    tuples_list, text_list, clean_list,       \* filter_chapter: its lists
    f_text, f_result, f_cause,                \* filter_chapter: text, outcome
    ch_pc, ch_cancel, all_docs, ch_i,         \* get_chapters: position, inputs
    chapters, ch_result,                      \* get_chapters: its list, outcome
    cv_pc, cv_fn, cv_text, cv_lang,           \* a text converter: position, arguments
    cv_compat, cv_out,                        \* a text converter: argument, outcome
    au_pc, au_chapters, au_result,            \* convert_chapters2audio: position, session, outcome
    au_sentence_files, au_chapter_files,      \* convert_chapters2audio: the audio files on disk
    au_existing, au_converted, au_ranges,     \* convert_chapters2audio: history of the call
    resume_sentence, missing_sentences,       \* convert_chapters2audio: resume detection
    resume_chapter, missing_chapters,
    au_x, au_i, sentence_number, au_start,    \* convert_chapters2audio: its loop
    cl_pc, cl_sessions, cl_disk, cl_keep,     \* cleanup_old_sessions: position, index, files
    cl_i, cl_converting, cl_incomplete,       \* cleanup_old_sessions: its lists
    cl_completed, sessions_to_delete,
    cl_deleted,                               \* cleanup_old_sessions: the sessions deleted
    ck_pc, ck_call, ck_calls,                 \* checkpoint manager: the workers' calls
    ck_lock, ck_stored,                       \* checkpoint manager: the keys of Redis
    checkpoint, current_value,                \* checkpoint manager: what a worker read
    ck_returned                               \* checkpoint manager: chapters marked complete

seg_vars == <<seg_pc, seg_text, seg_lang, seg_out>>
rom_vars == <<rom_pc, rom_text, rom_out>>
f_vars == <<f_pc, f_doc, f_lang, f_stanza, f_compat, tuples_list, text_list,
           clean_list, f_text, f_result, f_cause>>
ch_vars == <<ch_pc, ch_cancel, all_docs, ch_i, chapters, ch_result>>
cv_vars == <<cv_pc, cv_fn, cv_text, cv_lang, cv_compat, cv_out>>
au_vars == <<au_pc, au_chapters, au_sentence_files, au_chapter_files,
            au_existing, resume_sentence, missing_sentences, resume_chapter,
            missing_chapters, au_x, au_i, sentence_number, au_start,
            au_converted, au_ranges, au_result>>
cl_vars == <<cl_pc, cl_sessions, cl_disk, cl_keep, cl_i, cl_converting,
            cl_incomplete, cl_completed, sessions_to_delete, cl_deleted>>
ck_vars == <<ck_pc, ck_call, ck_lock, ck_stored, checkpoint, current_value,
            ck_returned, ck_calls>>
vars == <<seg_vars, rom_vars, f_vars, ch_vars, cv_vars, au_vars, cl_vars,
         ck_vars>>

(***************************************************************************)
(* Bounds of the model.                                                    *)
(***************************************************************************)
\* Number of atoms (characters or whole marker strings) of a segmenter input.
MaxAtoms == 4
\* max_chars of the alphabetic language of the model.
EngMaxChars == 9
\* max_chars of the ideogrammatic language of the model.
ZhoMaxChars == 12
\* Characters of a roman2number input.
MaxRomanLen == 3
\* Child nodes of a chapter body.
MaxNodes == 2
\* Spine documents of a book.
MaxDocs == 3

(***************************************************************************)
(* Characters and strings.                                                 *)
(***************************************************************************)
Letters == {"a", "b", "r", "e", "k", "p", "u", "s", "t", "h", "n", "o",
            "i", "v", "x", "l", "c", "d", "m",
            "I", "V", "X", "L", "C", "D", "M",
            "y", "A", "O", "K", "R", "Y", "f", "q", "g"}
Digits == {"0", "1", "2", "3", "4", "5", "6", "7", "8", "9"}

\* str.isalnum() of one character
IsAlnum(c) == c \in Letters \cup Digits
\* str.isspace() of one character
IsSpace(c) == c \in {" ", "\n"}

\* any(ch.isalnum() for ch in s)
HasAlnum(s) == \E i \in 1..Len(s) : IsAlnum(s[i])

RECURSIVE LStrip(_)
LStrip(s) == IF s # <<>> /\ IsSpace(s[1]) THEN LStrip(Tail(s)) ELSE s

RECURSIVE RStrip(_)
RStrip(s) ==
    IF s # <<>> /\ IsSpace(s[Len(s)]) THEN RStrip(SubSeq(s, 1, Len(s) - 1)) ELSE s

\* str.strip()
Strip(s) == LStrip(RStrip(s))

\* s[i:].startswith(t), i counted from 1
StartsWithAt(s, i, t) ==
    /\ i + Len(t) - 1 <= Len(s)
    /\ SubSeq(s, i, i + Len(t) - 1) = t

\* t in s (substring)
Contains(s, t) == \E i \in 1..Len(s) : StartsWithAt(s, i, t)

RECURSIVE Flatten(_)
Flatten(ss) == IF ss = <<>> THEN <<>> ELSE Head(ss) \o Flatten(Tail(ss))

(***************************************************************************)
(* Control markers and language data.                                      *)
(***************************************************************************)
TTS_SML_break == <<"~", "b", "r", "e", "a", "k", "~">>
TTS_SML_pause == <<"~", "p", "a", "u", "s", "e", "~">>
sml_tokens == {TTS_SML_break, TTS_SML_pause}

\* The safety margin subtracted from max_chars.
Margin == 4

AlphabeticLangs == {"eng"}
IdeogrammaticLangs == {"zho"}

\* lib/lang.py: language_mapping[lang]['max_chars']
language_mapping == [eng |-> EngMaxChars, zho |-> ZhoMaxChars]

\* lib/lang.py: the hard and the soft split punctuation
punctuation_split_hard_set == {"."}
punctuation_split_soft_set == {","}

(***************************************************************************)
(* get_sentences: the sentence segmenter.                                  *)
(***************************************************************************)
IsSml(s) == s \in sml_tokens

RECURSIVE SmlSplitFrom(_, _, _)
\* re.split on the marker strings with a capturing group: the pieces between
\* the markers (empty ones included) and the markers, in order.
SmlSplitFrom(s, i, start) ==
    IF i > Len(s) THEN <<SubSeq(s, start, Len(s))>>
    ELSE IF \E t \in sml_tokens : StartsWithAt(s, i, t)
         THEN LET t == CHOOSE t \in sml_tokens : StartsWithAt(s, i, t)
              IN  <<SubSeq(s, start, i - 1), t>>
                  \o SmlSplitFrom(s, i + Len(t), i + Len(t))
         ELSE SmlSplitFrom(s, i + 1, start)

\* A filter of stage 1 that keeps no marker
KeepSml_DropsMarkers(s) == Strip(s) # <<>> /\ ~IsSml(s)
\* The filter of stage 1: s.strip() or s in sml_tokens
KeepSml(s) == Strip(s) # <<>> \/ IsSml(s)

\* Stage 1: split on SML tokens, drop the blank pieces
sml_list(text) == SelectSeq(SmlSplitFrom(text, 1, 1), KeepSml)

RECURSIVE SplitFrom(_, _, _, _)
\* The matches of (.*?(?:P))(?=\s|$) from `start` on, each stripped, then
\* the stripped tail when it is not empty.
SplitFrom(text, P, start, j) ==
    IF j > Len(text)
    THEN IF start <= Len(text) /\ Strip(SubSeq(text, start, Len(text))) # <<>>
         THEN <<Strip(SubSeq(text, start, Len(text)))>>
         ELSE <<>>
    ELSE IF text[j] \in P /\ (j = Len(text) \/ IsSpace(text[j + 1]))
         THEN <<Strip(SubSeq(text, start, j))>> \o SplitFrom(text, P, j + 1, j + 1)
         ELSE SplitFrom(text, P, start, j + 1)

\* A split that leaves out the tail after the last match
split_inclusive_DropsTail(text, P) ==
    SelectSeq(SplitFrom(text, P, 1, 1), LAMBDA p : p # <<>> /\ p[Len(p)] \in P)
split_inclusive(text, P) == SplitFrom(text, P, 1, 1)

NonEmpty(s) == s # <<>>
\* bool(s.strip())
NonBlank(s) == Strip(s) # <<>>

HardItem_SplitsWithinBudget(s, max_chars) ==
    IF IsSml(s) THEN <<s>>
    ELSE LET parts == split_inclusive(s, punctuation_split_hard_set)
         IN  IF parts # <<>>
             THEN SelectSeq([k \in 1..Len(parts) |-> Strip(parts[k])], NonEmpty)
             ELSE IF Strip(s) # <<>> THEN <<Strip(s)>> ELSE <<>>
\* Stage 2, one item: a marker or an item within the budget passes, an
\* oversized item is split at the hard punctuation.
HardItem(s, max_chars) ==
    IF IsSml(s) \/ Len(s) <= max_chars THEN <<s>>
    ELSE LET parts == split_inclusive(s, punctuation_split_hard_set)
         IN  IF parts # <<>>
             THEN SelectSeq([k \in 1..Len(parts) |-> Strip(parts[k])], NonEmpty)
             ELSE IF Strip(s) # <<>> THEN <<Strip(s)>> ELSE <<>>

RECURSIVE hard_list(_, _)
hard_list(list, max_chars) ==
    IF list = <<>> THEN <<>>
    ELSE HardItem(Head(list), max_chars) \o hard_list(Tail(list), max_chars)

EndsWithSoft(buffer) ==
    LET b == RStrip(buffer)
    IN  b # <<>> /\ b[Len(b)] \in punctuation_split_soft_set

\* max(buffer.rfind(p) for p in soft if p in buffer, default=-1), counted from 1
\* (0 when the buffer holds no soft punctuation)
LastSoftIdx(buffer) ==
    LET idx == {i \in 1..Len(buffer) : buffer[i] \in punctuation_split_soft_set}
    IN  IF idx = {} THEN 0 ELSE CHOOSE i \in idx : \A k \in idx : k <= i

\* A step that starts the new buffer on overflow and forgets the old one
SoftStep_ForgetsBuffer(st, part, max_chars) ==
    IF Len(st.buffer) + (IF st.buffer # <<>> THEN 1 ELSE 0) + Len(part) <= max_chars
    THEN [st EXCEPT !.buffer =
             IF st.buffer # <<>> THEN Strip(st.buffer \o <<" ">> \o part) ELSE part]
    ELSE [st EXCEPT !.buffer = part]
\* One part of the soft split: the buffer and the units flushed so far.
SoftStep(st, part, max_chars) ==
    LET buffer == st.buffer
        predicted_length == Len(buffer) + (IF buffer # <<>> THEN 1 ELSE 0) + Len(part)
    IN  IF predicted_length <= max_chars
        THEN [st EXCEPT !.buffer =
                 IF buffer # <<>> THEN Strip(buffer \o <<" ">> \o part) ELSE part]
        ELSE IF buffer # <<>> /\ ~EndsWithSoft(buffer)
             THEN LET last_punct_idx == LastSoftIdx(buffer)
                  IN  IF last_punct_idx # 0
                      THEN LET leftover ==
                                   Strip(SubSeq(buffer, last_punct_idx + 1, Len(buffer)))
                           IN  [buffer |-> IF leftover # <<>>
                                           THEN leftover \o <<" ">> \o part
                                           ELSE part,
                                out |-> Append(st.out,
                                               Strip(SubSeq(buffer, 1, last_punct_idx)))]
                      ELSE [buffer |-> part, out |-> Append(st.out, Strip(buffer))]
             ELSE [buffer |-> part, out |-> Append(st.out, Strip(buffer))]

RECURSIVE SoftFold(_, _, _)
SoftFold(st, parts, max_chars) ==
    IF parts = <<>> THEN st
    ELSE SoftFold(SoftStep(st, Head(parts), max_chars), Tail(parts), max_chars)

\* Stage 3, one item
SoftItem(s, max_chars) ==
    IF IsSml(s) \/ Len(s) <= max_chars THEN <<s>>
    ELSE LET parts == SelectSeq(split_inclusive(s, punctuation_split_soft_set), NonEmpty)
         IN  IF parts # <<>>
             THEN LET st == SoftFold([buffer |-> <<>>, out |-> <<>>], parts, max_chars)
                  IN  IF st.buffer # <<>> /\ HasAlnum(st.buffer)
                      THEN Append(st.out, Strip(st.buffer))
                      ELSE st.out
             ELSE IF HasAlnum(s) THEN <<Strip(s)>> ELSE <<>>

RECURSIVE soft_list(_, _)
soft_list(list, max_chars) ==
    IF list = <<>> THEN <<>>
    ELSE SoftItem(Head(list), max_chars) \o soft_list(Tail(list), max_chars)

RECURSIVE SplitSpaceFrom(_, _, _)
\* s.split(' ')
SplitSpaceFrom(s, i, start) ==
    IF i > Len(s) THEN <<SubSeq(s, start, Len(s))>>
    ELSE IF s[i] = " "
         THEN <<SubSeq(s, start, i - 1)>> \o SplitSpaceFrom(s, i + 1, i + 1)
         ELSE SplitSpaceFrom(s, i + 1, start)

RECURSIVE WordFold(_, _, _, _)
\* the loop over words[1:] and the last line
WordFold(text_part, ws, out, max_chars) ==
    IF ws = <<>>
    THEN IF text_part # <<>> /\ HasAlnum(text_part) THEN Append(out, text_part) ELSE out
    ELSE LET w == Head(ws)
         IN  IF Len(text_part) + 1 + Len(w) <= max_chars
             THEN WordFold(text_part \o <<" ">> \o w, Tail(ws), out, max_chars)
             ELSE WordFold(w, Tail(ws),
                           IF Strip(text_part) # <<>>
                           THEN Append(out, Strip(text_part)) ELSE out,
                           max_chars)

\* Final stage for alphabetic languages, one item
WordItem(s, max_chars) ==
    IF IsSml(s) \/ Len(s) <= max_chars THEN <<s>>
    ELSE LET words == SplitSpaceFrom(s, 1, 1)
         IN  WordFold(Head(words), Tail(words), <<>>, max_chars)

RECURSIVE sentences(_, _)
sentences(list, max_chars) ==
    IF list = <<>> THEN <<>>
    ELSE WordItem(Head(list), max_chars) \o sentences(Tail(list), max_chars)

RECURSIVE TokensFrom(_, _, _)
\* The word tokenizer of an ideogrammatic language (jieba, sudachi, soynlp,
\* pythainlp), with the whitespace tokens removed: a run of letters and
\* digits is a token, every other character is a token of its own.
TokensFrom(s, i, start) ==
    IF i > Len(s) THEN IF start < i THEN <<SubSeq(s, start, Len(s))>> ELSE <<>>
    ELSE IF IsAlnum(s[i]) THEN TokensFrom(s, i + 1, start)
         ELSE (IF start < i THEN <<SubSeq(s, start, i - 1)>> ELSE <<>>)
              \o (IF IsSpace(s[i]) THEN <<>> ELSE <<<<s[i]>>>>)
              \o TokensFrom(s, i + 1, i + 1)

word_tokens(s) == TokensFrom(s, 1, 1)

RECURSIVE segment_ideogramms(_)
\* a marker stays one token; any other segment is tokenized
segment_ideogramms(segments) ==
    IF segments = <<>> THEN <<>>
    ELSE LET segment == Head(segments)
         IN  (IF segment = <<>> THEN <<>>
              ELSE IF IsSml(segment) THEN <<segment>>
              ELSE word_tokens(segment))
             \o segment_ideogramms(Tail(segments))

RECURSIVE IdgTokens(_)
\* Stage 4 for ideogrammatic languages: the token list of soft_list
IdgTokens(list) ==
    IF list = <<>> THEN <<>>
    ELSE LET s == Head(list)
         IN  (IF IsSml(s) THEN <<s>>
              ELSE SelectSeq(segment_ideogramms(SmlSplitFrom(s, 1, 1)), NonBlank))
             \o IdgTokens(Tail(list))

RECURSIVE join_ideogramms_NeverFull(_, _, _)
\* An assembly that never closes a unit for its length
join_ideogramms_NeverFull(idg_list, buffer, max_chars) ==
    IF idg_list = <<>> THEN IF buffer # <<>> THEN <<buffer>> ELSE <<>>
    ELSE IF IsSml(Strip(Head(idg_list)))
         THEN (IF buffer # <<>> THEN <<buffer>> ELSE <<>>) \o <<Head(idg_list)>>
              \o join_ideogramms_NeverFull(Tail(idg_list), <<>>, max_chars)
         ELSE join_ideogramms_NeverFull(Tail(idg_list), buffer \o Head(idg_list),
                                        max_chars)

RECURSIVE join_ideogramms(_, _, _)
join_ideogramms(idg_list, buffer, max_chars) ==
    IF idg_list = <<>> THEN IF buffer # <<>> THEN <<buffer>> ELSE <<>>
    ELSE LET token == Head(idg_list)
         IN  IF IsSml(Strip(token))
             THEN (IF buffer # <<>> THEN <<buffer>> ELSE <<>>) \o <<token>>
                  \o join_ideogramms(Tail(idg_list), <<>>, max_chars)
             ELSE IF buffer # <<>> /\ Len(buffer) + Len(token) > max_chars
                  THEN <<buffer>> \o join_ideogramms(Tail(idg_list), token, max_chars)
                  ELSE join_ideogramms(Tail(idg_list), buffer \o token, max_chars)

\* language_mapping[lang]['max_chars'] - 4
Budget(lang) == language_mapping[lang] - Margin

\* get_sentences(text, lang, tts_engine): the list, or None
get_sentences(text, lang) ==
    IF lang \notin DOMAIN language_mapping
    THEN [ok |-> FALSE, list |-> <<>>]
    ELSE LET max_chars == Budget(lang)
             soft == soft_list(hard_list(sml_list(text), max_chars), max_chars)
         IN  [ok |-> TRUE,
              list |-> IF lang \in IdeogrammaticLangs
                       THEN join_ideogramms(IdgTokens(soft), <<>>, max_chars)
                       ELSE sentences(soft, max_chars)]

(***************************************************************************)
(* The segmenter as a state machine: an input is drawn, get_sentences is   *)
(* applied to it.                                                          *)
(***************************************************************************)
\* The pieces an input text is made of.
SegAtoms == {<<"a">>, <<" ">>, <<".">>, <<",">>, TTS_SML_break, TTS_SML_pause,
             <<"~", "b", "r", "e">>, <<"a", "k", "~">>, <<"a", ".", " ">>}

RECURSIVE AtomSeqs(_)
AtomSeqs(n) ==
    IF n = 0 THEN {<<>>}
    ELSE LET shorter == AtomSeqs(n - 1)
         IN  shorter \cup {Append(q, a) : q \in {t \in shorter : Len(t) = n - 1},
                                          a \in SegAtoms}

SegInputs == {Flatten(q) : q \in AtomSeqs(MaxAtoms)}
\* A code that language_mapping has no entry for.
UnknownLang == "und"
SegLangs == AlphabeticLangs \cup IdeogrammaticLangs \cup {UnknownLang}

NoResult == [ok |-> FALSE, list |-> <<>>]

SegInit ==
    /\ seg_pc = "call"
    /\ seg_text \in SegInputs
    /\ seg_lang \in SegLangs
    /\ seg_out = NoResult

GetSentences ==
    /\ seg_pc = "call"
    /\ seg_out' = get_sentences(seg_text, seg_lang)
    /\ seg_pc' = "done"
    /\ UNCHANGED <<seg_text, seg_lang>>

(***************************************************************************)
(* roman2number.                                                           *)
(***************************************************************************)
\* A value of the pipeline: a text, an integer or None.
StrVal(t) == [kind |-> "str", text |-> t, val |-> 0]
IntVal(n) == [kind |-> "int", text |-> <<>>, val |-> n]
NoneVal == [kind |-> "none", text |-> <<>>, val |-> 0]

roman_values == [I |-> 1, V |-> 5, X |-> 10, L |-> 50, C |-> 100, D |-> 500, M |-> 1000]

\* str.upper() of one character
Upper(c) ==
    CASE c = "i" -> "I" [] c = "v" -> "V" [] c = "x" -> "X" [] c = "l" -> "L"
      [] c = "c" -> "C" [] c = "d" -> "D" [] c = "m" -> "M" [] OTHER -> c

RECURSIVE RomanLoop(_, _, _, _)
\* for char in reversed(text): the total, or None at a character that has
\* no roman value
RomanLoop(text, i, total, prev_value) ==
    IF i = 0 THEN IntVal(total)
    ELSE IF text[i] \notin DOMAIN roman_values THEN NoneVal
    ELSE LET value == roman_values[text[i]]
         IN  RomanLoop(text, i - 1,
                       IF value < prev_value THEN total - value ELSE total + value,
                       value)

\* roman2number(text)
roman2number(v) ==
    IF v.kind # "str" THEN NoneVal
    ELSE LET text == [i \in 1..Len(v.text) |-> Upper(v.text[i])]
         IN  RomanLoop(text, Len(text), 0, 0)

\* The characters a roman2number input is made of.
RomanChars == {"I", "V", "X", "C", "M", "x", "a", " "}

RECURSIVE CharSeqs(_, _)
CharSeqs(A, n) ==
    IF n = 0 THEN {<<>>}
    ELSE LET shorter == CharSeqs(A, n - 1)
         IN  shorter \cup {Append(q, a) : q \in {t \in shorter : Len(t) = n - 1}, a \in A}

RomInit ==
    /\ rom_pc = "call"
    /\ rom_text \in CharSeqs(RomanChars, MaxRomanLen)
    /\ rom_out = NoneVal

Roman2Number ==
    /\ rom_pc = "call"
    /\ rom_out' = roman2number(StrVal(rom_text))
    /\ rom_pc' = "done"
    /\ UNCHANGED rom_text

(***************************************************************************)
(* filter_chapter: the markup of a chapter.                                *)
(***************************************************************************)
\* A NavigableString
TextNode(t) == [kind |-> "text", name |-> "", text |-> t, rows |-> <<>>, children |-> <<>>]
\* A Tag with child nodes
TagNode(name, children) ==
    [kind |-> "tag", name |-> name, text |-> <<>>, rows |-> <<>>, children |-> children]
\* A <table>: its <tr> rows, each the list of its cells
TableNode(rows) ==
    [kind |-> "tag", name |-> "table", text |-> <<>>, rows |-> rows, children |-> <<>>]
Cell(tag, t) == [tag |-> tag, text |-> t]

heading_tags == {"h1", "h2", "h3", "h4"}
break_tags == {"br", "p"}
pause_tags == {"div", "span"}
proc_tags == heading_tags \cup break_tags \cup pause_tags

excluded ==
    {<<"f", "r", "o", "n", "t", "m", "a", "t", "t", "e", "r">>,
     <<"b", "a", "c", "k", "m", "a", "t", "t", "e", "r">>,
     <<"t", "o", "c">>,
     <<"t", "i", "t", "l", "e", "p", "a", "g", "e">>,
     <<"c", "o", "l", "o", "p", "h", "o", "n">>,
     <<"a", "c", "k", "n", "o", "w", "l", "e", "d", "g", "m", "e", "n", "t", "s">>,
     <<"d", "e", "d", "i", "c", "a", "t", "i", "o", "n">>,
     <<"g", "l", "o", "s", "s", "a", "r", "y">>,
     <<"i", "n", "d", "e", "x">>,
     <<"a", "p", "p", "e", "n", "d", "i", "x">>,
     <<"b", "i", "b", "l", "i", "o", "g", "r", "a", "p", "h", "y">>,
     <<"c", "o", "p", "y", "r", "i", "g", "h", "t", "-", "p", "a", "g", "e">>,
     <<"l", "a", "n", "d", "m", "a", "r", "k">>}

RECURSIVE GetText(_)
\* node.get_text(strip=True) of a list of nodes: their strings, each stripped
GetText(nodes) ==
    IF nodes = <<>> THEN <<>>
    ELSE LET n == Head(nodes)
             row_text == [r \in 1..Len(n.rows) |->
                              Flatten([c \in 1..Len(n.rows[r]) |-> Strip(n.rows[r][c].text)])]
         IN  (IF n.kind = "text" THEN Strip(n.text)
              ELSE IF n.name = "table" THEN Flatten(row_text)
              ELSE GetText(n.children))
             \o GetText(Tail(nodes))

Tuple(typ, t) == [typ |-> typ, text |-> t, table |-> <<>>]
TableTuple(node) == [typ |-> "table", text |-> <<>>, table |-> node.rows]

\* The last character of the last text or heading of the tuples, or `last`
RECURSIVE LastTextChar(_, _)
LastTextChar(tuples, last) ==
    IF tuples = <<>> THEN last
    ELSE LET t == tuples[Len(tuples)]
         IN  IF t.typ \in {"text", "heading"} /\ t.text # <<>>
             THEN t.text[Len(t.text)]
             ELSE LastTextChar(SubSeq(tuples, 1, Len(tuples) - 1), last)

\* What one child yields, given last_text_char ("" for None)
RECURSIVE tuple_row(_, _)
ChildTuples(child, last_text_char) ==
    IF child.kind = "text"
    THEN IF Strip(child.text) # <<>> THEN <<Tuple("text", Strip(child.text))>> ELSE <<>>
    ELSE IF child.name \in heading_tags
    THEN IF GetText(child.children) # <<>>
         THEN <<Tuple("heading", GetText(child.children))>> ELSE <<>>
    ELSE IF child.name = "table" THEN <<TableTuple(child)>>
    ELSE IF child.name \in proc_tags
    THEN LET inner == tuple_row(child.children, last_text_char)
             last == LastTextChar(inner, last_text_char)
         IN  IF inner = <<>> THEN <<>>
             ELSE IF child.name \in break_tags
             THEN IF ~(last # "" /\ (IsAlnum(last) \/ IsSpace(last)))
                  THEN Append(inner, Tuple("break", TTS_SML_break))
                  ELSE inner
             ELSE IF child.name \in heading_tags \/ child.name \in pause_tags
             THEN Append(inner, Tuple("pause", TTS_SML_pause))
             ELSE inner
    ELSE tuple_row(child.children, last_text_char)

\* last_text_char after a child: a text, a heading and the tuples of a
\* processed tag set it, the tuples of any other tag do not
LastAfter(child, last_text_char) ==
    IF child.kind = "text" \/ child.name \in heading_tags
       \/ (child.name # "table" /\ child.name \in proc_tags)
    THEN LastTextChar(SelectSeq(ChildTuples(child, last_text_char),
                                LAMBDA t : t.typ \in {"text", "heading"}),
                      last_text_char)
    ELSE last_text_char

\* tuple_row(node, last_text_char), over the children of the node
tuple_row(children, last_text_char) ==
    IF children = <<>> THEN <<>>
    ELSE ChildTuples(Head(children), last_text_char)
         \o tuple_row(Tail(children), LastAfter(Head(children), last_text_char))

(***************************************************************************)
(* filter_chapter: from the tuples to the text.                            *)
(***************************************************************************)
\* " \u2014 ", the separator of the cells of a table line
Sep == <<" ", "^", " ">>

RECURSIVE Join(_, _)
\* sep.join(list)
Join(list, sep) ==
    IF list = <<>> THEN <<>>
    ELSE IF Len(list) = 1 THEN list[1]
    ELSE list[1] \o sep \o Join(Tail(list), sep)

CellTexts(row, tags) ==
    LET cells == SelectSeq(row, LAMBDA c : c.tag \in tags)
    IN  [k \in 1..Len(cells) |-> Strip(cells[k].text)]

\* The line of one data row
RowLine(headers, row) ==
    LET cells == CellTexts(row, {"td"})
    IN  IF cells = <<>> THEN <<>>
        ELSE IF Len(cells) = Len(headers) /\ headers # <<>>
        THEN Strip(Join([k \in 1..Len(cells) |-> headers[k] \o <<":", " ">> \o cells[k]], Sep))
        ELSE Strip(Join(cells, Sep))

\* The lines of a table: one for each row after the first
TableLines(rows) ==
    IF rows = <<>> THEN <<>>
    ELSE LET headers == CellTexts(rows[1], {"td", "th"})
         IN  SelectSeq([r \in 1..(Len(rows) - 1) |-> RowLine(headers, rows[r + 1])],
                       NonEmpty)

RECURSIVE TextList(_, _, _)
\* The loop over tuples_list: text_list
TextList(tuples, handled_tables, prev_typ) ==
    IF tuples = <<>> THEN <<>>
    ELSE LET t == Head(tuples)
             rest == Tail(tuples)
         IN  CASE t.typ = "heading" ->
                    <<Strip(t.text)>> \o TextList(rest, handled_tables, t.typ)
               [] t.typ = "break" ->
                    (IF prev_typ # "break" THEN <<TTS_SML_break>> ELSE <<>>)
                    \o TextList(rest, handled_tables, t.typ)
               [] t.typ = "pause" ->
                    (IF prev_typ # "pause" THEN <<TTS_SML_pause>> ELSE <<>>)
                    \o TextList(rest, handled_tables, t.typ)
               [] t.typ = "table" ->
                    IF t.table \in handled_tables
                    THEN TextList(rest, handled_tables, t.typ)
                    ELSE TableLines(t.table)
                         \o TextList(rest, handled_tables \cup {t.table}, t.typ)
               [] OTHER ->
                    (IF Strip(t.text) # <<>> THEN <<Strip(t.text)>> ELSE <<>>)
                    \o TextList(rest, handled_tables, t.typ)

RECURSIVE CleanList(_, _, _, _)
\* The break optimisation: the loop over text_list
CleanList(list, i, clean, max_chars) ==
    IF i > Len(list) THEN clean
    ELSE LET current == list[i]
             prev == clean[Len(clean)]
             next_sentence == list[i + 1]
         IN  IF current = TTS_SML_break /\ clean # <<>>
             THEN IF prev \in {TTS_SML_break, TTS_SML_pause}
                  THEN CleanList(list, i + 1, clean, max_chars)
                  ELSE IF /\ prev # <<>>
                          /\ (IsAlnum(prev[Len(prev)]) \/ prev[Len(prev)] = " ")
                          /\ i + 1 <= Len(list)
                  THEN IF Len(RStrip(prev)) + 1 + Len(LStrip(next_sentence)) <= max_chars
                       THEN CleanList(list, i + 2,
                                [clean EXCEPT ![Len(clean)] =
                                    IF prev[Len(prev)] # " "
                                       /\ (next_sentence = <<>> \/ next_sentence[1] # " ")
                                    THEN prev \o <<" ">> \o next_sentence
                                    ELSE prev \o next_sentence],
                                max_chars)
                       ELSE CleanList(list, i + 1, Append(clean, current), max_chars)
                  ELSE CleanList(list, i + 1, Append(clean, current), max_chars)
             ELSE CleanList(list, i + 1, Append(clean, current), max_chars)

(***************************************************************************)
(* filter_chapter: dates, ordinals and years.                              *)
(***************************************************************************)
RECURSIVE Decimal(_)
\* str(n): the decimal digits of a natural number
Decimal(n) ==
    LET d == <<"0", "1", "2", "3", "4", "5", "6", "7", "8", "9">>[(n % 10) + 1]
    IN  IF n < 10 THEN <<d>> ELSE Append(Decimal(n \div 10), d)

\* int(c) of one digit
DigitVal(c) == CHOOSE n \in 0..9 : Decimal(n) = <<c>>

RECURSIVE IntOf(_)
\* int(digits)
IntOf(ds) ==
    IF ds = <<>> THEN 0
    ELSE 10 * IntOf(SubSeq(ds, 1, Len(ds) - 1)) + DigitVal(ds[Len(ds)])

\* str.lower() of one character
Lower(c) ==
    CASE c = "I" -> "i" [] c = "V" -> "v" [] c = "X" -> "x" [] c = "L" -> "l"
      [] c = "C" -> "c" [] c = "D" -> "d" [] c = "M" -> "m" [] c = "T" -> "t"
      [] OTHER -> c

\* text[i], or "" outside the text
At(s, i) == IF i \in 1..Len(s) THEN s[i] ELSE ""
IsDigit(c) == c \in Digits
\* \w
IsWordChar(c) == IsAlnum(c)

RECURSIVE DigitsEnd(_, _)
\* \d+ from i: the end of the longest run of digits (i - 1 when there is none)
DigitsEnd(s, i) == IF IsDigit(At(s, i)) THEN DigitsEnd(s, i + 1) ELSE i - 1

RECURSIVE SpacesEnd(_, _)
\* \s* from i
SpacesEnd(s, i) == IF IsSpace(At(s, i)) THEN SpacesEnd(s, i + 1) ELSE i - 1

\* re_num matched at i: the end of the match, or 0
NumEnd(s, i) ==
    LET j == IF At(s, i) \in {"-", "+"} THEN i + 1 ELSE i
        d == DigitsEnd(s, j)
        e == DigitsEnd(s, d + 2)
    IN  IF IsWordChar(At(s, i - 1)) \/ d < j THEN 0
        ELSE IF At(s, d + 1) = "." /\ e >= d + 2 /\ ~IsWordChar(At(s, e + 1)) THEN e
        ELSE IF ~IsWordChar(At(s, d + 1)) THEN d
        ELSE 0

ordinal_suffixes == {<<"s", "t">>, <<"n", "d">>, <<"r", "d">>, <<"t", "h">>}

\* (?:\s)*(?:st|nd|rd|th)(?!\w) from k: the end of the suffix, or 0
SuffixEnd(s, k) ==
    LET q == SpacesEnd(s, k) + 1
    IN  IF <<Lower(At(s, q)), Lower(At(s, q + 1))>> \in ordinal_suffixes
           /\ ~IsWordChar(At(s, q + 2))
        THEN q + 1 ELSE 0

\* 0?[1-9]|[12][0-9]|3[01] on two characters
TwoDigitDay(a, b) ==
    \/ a = "0" /\ IsDigit(b) /\ b # "0"
    \/ a \in {"1", "2"} /\ IsDigit(b)
    \/ a = "3" /\ b \in {"0", "1"}

NoMatch == [end |-> 0, day |-> <<>>]

\* re_ordinal matched at i: the end of the match and its group 1
OrdMatch(s, i) ==
    IF IsWordChar(At(s, i - 1)) THEN NoMatch
    ELSE IF TwoDigitDay(At(s, i), At(s, i + 1)) /\ SuffixEnd(s, i + 2) > 0
    THEN [end |-> SuffixEnd(s, i + 2), day |-> SubSeq(s, i, i + 1)]
    ELSE IF IsDigit(At(s, i)) /\ At(s, i) # "0" /\ SuffixEnd(s, i + 1) > 0
    THEN [end |-> SuffixEnd(s, i + 1), day |-> SubSeq(s, i, i)]
    ELSE NoMatch

\* \b\d{4}\b matched at i: the end of the match, or 0
YearEnd(s, i) ==
    IF /\ ~IsWordChar(At(s, i - 1))
       /\ \A k \in i..(i + 3) : IsDigit(At(s, k))
       /\ ~IsWordChar(At(s, i + 4))
    THEN i + 3 ELSE 0

re_num_search(s) == \E i \in 1..Len(s) : NumEnd(s, i) > 0
re_ordinal_search(s) == \E i \in 1..Len(s) : OrdMatch(s, i).end > 0

\* The word of one digit: a letter stands for the word
DigitWord(c) ==
    CASE c = "0" -> "o" [] c = "1" -> "a" [] c = "2" -> "b" [] c = "3" -> "e"
      [] c = "4" -> "k" [] c = "5" -> "p" [] c = "6" -> "r" [] c = "7" -> "s"
      [] c = "8" -> "u" [] OTHER -> "n"

\* num2words(n): one word, a letter for each digit of n
Words(n) == [k \in 1..Len(Decimal(n)) |-> DigitWord(Decimal(n)[k])]
\* num2words(n, to="ordinal")
Ordinal(n) == Words(n) \o <<"t", "h">>
\* ' '.join(phoneme_map.get(ch, ch) for ch in digits)
Spell(ds) == Join([k \in 1..Len(ds) |-> <<DigitWord(ds[k])>>], <<" ">>)

\* num2words(n) of a re_num match: its sign, its integer part, its decimals
NumWords(m) ==
    LET signed == m[1] \in {"-", "+"}
        body == IF signed THEN Tail(m) ELSE m
        d == DigitsEnd(body, 1)
    IN  (IF m[1] = "-" THEN <<"m", " ">> ELSE <<>>)
        \o Words(IntOf(SubSeq(body, 1, d)))
        \o (IF d < Len(body) THEN <<" ", "p", " ">> \o Spell(SubSeq(body, d + 2, Len(body)))
            ELSE <<>>)

\* year2words(year_str, ...) of a string of digits whose int() conversions
\* succeed: two groups for four digits ending in 10 or more, the whole
\* number otherwise
year2words(year_str, is_num2words_compat) ==
    LET first_two == IntOf(SubSeq(year_str, 1, 2))
        last_two == IntOf(SubSeq(year_str, 3, Len(year_str)))
    IN  IF Len(year_str) # 4 \/ last_two < 10
        THEN IF is_num2words_compat THEN Words(IntOf(year_str)) ELSE Spell(year_str)
        ELSE IF is_num2words_compat
             THEN Words(first_two) \o <<" ">> \o Words(last_two)
             ELSE Spell(Decimal(first_two)) \o <<" ">> \o Spell(Decimal(last_two))

RECURSIVE YearSub(_, _, _)
\* re.sub(r"\b\d{4}\b", year2words, s), from i
YearSub(s, i, compat) ==
    IF i > Len(s) THEN <<>>
    ELSE IF YearEnd(s, i) > 0
    THEN year2words(SubSeq(s, i, i + 3), compat) \o YearSub(s, i + 4, compat)
    ELSE <<s[i]>> \o YearSub(s, i + 1, compat)

RECURSIVE OrdinalSub(_, _)
\* re_ordinal.sub(num2words(int(m.group(1)), to="ordinal"), s), from i
OrdinalSub(s, i) ==
    IF i > Len(s) THEN <<>>
    ELSE LET m == OrdMatch(s, i)
         IN  IF m.end > 0 THEN Ordinal(IntOf(m.day)) \o OrdinalSub(s, m.end + 1)
             ELSE <<s[i]>> \o OrdinalSub(s, i + 1)

RECURSIVE OrdinalSubMath(_, _)
\* re_ordinal.sub(math2words(m.group(), ...), s) without word generation:
\* set_formatted_number spells the digits and the suffix stays
OrdinalSubMath(s, i) ==
    IF i > Len(s) THEN <<>>
    ELSE LET m == OrdMatch(s, i)
         IN  IF m.end > 0
             THEN Spell(Decimal(IntOf(m.day))) \o SubSeq(s, i + Len(m.day), m.end)
                  \o OrdinalSubMath(s, m.end + 1)
             ELSE <<s[i]>> \o OrdinalSubMath(s, i + 1)

Converted(t) == [ok |-> TRUE, text |-> t, cause |-> ""]
Raised(cause) == [ok |-> FALSE, text |-> <<>>, cause |-> cause]

RECURSIVE NumSub(_, _, _)
\* re_num.sub(_num_repl, s), from i: a year stays, another number becomes
\* words, or math2words is handed the match object and raises TypeError
NumSub(s, i, compat) ==
    IF i > Len(s) THEN Converted(<<>>)
    ELSE LET e == NumEnd(s, i)
             m == SubSeq(s, i, e)
             rest == NumSub(s, IF e > 0 THEN e + 1 ELSE i + 1, compat)
             piece == IF e = 0 THEN <<s[i]>>
                      ELSE IF Len(m) = 4 /\ \A k \in 1..4 : IsDigit(m[k]) THEN m
                      ELSE NumWords(m)
         IN  IF e > 0 /\ ~(Len(m) = 4 /\ \A k \in 1..4 : IsDigit(m[k])) /\ ~compat
             THEN Raised("number")
             ELSE IF rest.ok THEN Converted(piece \o rest.text) ELSE rest

\* The three conversions of one date span
SpanText(date_text, compat) ==
    LET years == YearSub(date_text, 1, compat)
        ordinals == IF compat THEN OrdinalSub(years, 1) ELSE OrdinalSubMath(years, 1)
    IN  NumSub(ordinals, 1, compat)

RECURSIVE SpanFold(_, _, _, _)
\* for start, end, date_text in date_spans, then the rest of the text
SpanFold(text, spans, last_pos, compat) ==
    IF spans = <<>> THEN Converted(SubSeq(text, last_pos + 1, Len(text)))
    ELSE LET sp == Head(spans)
             processed == SpanText(SubSeq(text, sp.start + 1, sp.end), compat)
             rest == SpanFold(text, Tail(spans), sp.end, compat)
         IN  IF ~processed.ok THEN processed
             ELSE IF ~rest.ok THEN rest
             ELSE Converted(SubSeq(text, last_pos + 1, sp.start) \o processed.text
                            \o rest.text)

\* The spans get_date_entities may return for a text: none (also its
\* False on an error), or one span of whole words
SpanChoices(text) ==
    LET starts == {k \in 0..(Len(text) - 1) :
                       ~IsSpace(text[k + 1]) /\ (k = 0 \/ IsSpace(text[k]))}
        ends == {k \in 1..Len(text) :
                     ~IsSpace(text[k]) /\ (k = Len(text) \/ IsSpace(text[k + 1]))}
        pairs == {p \in starts \X ends : p[1] < p[2]}
    IN  {<<>>} \cup {<<[start |-> p[1], end |-> p[2]]>> : p \in pairs}

\* Whether the date stage asks get_date_entities
asks_date_entities(text, stanza_nlp) ==
    stanza_nlp /\ re_num_search(text) /\ re_ordinal_search(text)

\* The date stage, given what get_date_entities returns
date_stage(text, stanza_nlp, compat, date_spans) ==
    IF ~asks_date_entities(text, stanza_nlp) THEN Converted(text)
    ELSE IF date_spans # <<>> THEN SpanFold(text, date_spans, 0, compat)
    ELSE IF compat THEN Converted(YearSub(OrdinalSub(text, 1), 1, compat))
    ELSE Raised("ordinal")

(***************************************************************************)
(* filter_chapter: the state machine.                                      *)
(***************************************************************************)
\* The semantic type of the body alone, without the <section> fallback
epub_type_BodyOnly(doc) == [k \in 1..Len(doc.body_type) |-> Lower(doc.body_type[k])]
\* body.get("epub:type", "").lower(), else that of the first <section>
epub_type(doc) ==
    LET of_body == [k \in 1..Len(doc.body_type) |-> Lower(doc.body_type[k])]
        of_section == [k \in 1..Len(doc.section_type) |-> Lower(doc.section_type[k])]
    IN  IF of_body # <<>> THEN of_body
        ELSE IF doc.section THEN of_section
        ELSE of_body

\* any(part in epub_type for part in excluded)
is_excluded(type) == \E part \in excluded : Contains(type, part)

\* The outcome of a call: a returned list, a returned None, the end of the
\* process (SystemExit) or an exception that leaves the function
Pending == [kind |-> "pending", list |-> <<>>]
ListResult(l) == [kind |-> "list", list |-> l]
NoneResult == [kind |-> "none", list |-> <<>>]
ExitResult == [kind |-> "exit", list |-> <<>>]
RaiseResult == [kind |-> "raise", list |-> <<>>]

\* The children of a body
TextA == TextNode(<<"a">>)
Blank == TextNode(<<" ">>)
HeaderRow == <<Cell("th", <<"a">>), Cell("th", <<"b">>)>>
DataRow == <<Cell("td", <<"b">>), Cell("td", <<" ", "a">>)>>
Shapes ==
    {TextA, Blank, TextNode(<<".">>),
     TagNode("p", <<TextNode(<<"a", ".">>)>>),
     TagNode("p", <<TextA>>),
     TagNode("p", <<TextNode(<<".">>)>>),
     TagNode("p", <<TextNode(<<"1", "s", "t", " ", "1", "9", "8", "4">>)>>),
     TagNode("p", <<TextNode(<<"1", "s", "t", " ", "5">>)>>),
     TagNode("div", <<TextA>>),
     TagNode("div", <<TableNode(<<HeaderRow>>)>>),
     TableNode(<<HeaderRow, DataRow, <<Cell("td", <<"b">>)>>>>),
     TagNode("h1", <<TextA>>),
     TagNode("em", <<TextA>>),
     TagNode("br", <<>>),
     TextNode(TTS_SML_break)}

Bodies == UNION {[1..n -> Shapes] : n \in 0..MaxNodes}

Doc(raises, body, body_type, section, section_type, children) ==
    [raises |-> raises, body |-> body, body_type |-> body_type, section |-> section,
     section_type |-> section_type, children |-> children]

Toc == <<"t", "o", "c">>
Chapter == <<"c", "h", "a", "p", "t", "e", "r">>

\* The documents: one whose content cannot be read, one without a body, and
\* bodies with and without a semantic type, with and without a section
Docs ==
    {Doc(TRUE, FALSE, <<>>, FALSE, <<>>, <<>>), Doc(FALSE, FALSE, <<>>, FALSE, <<>>, <<>>)}
    \cup {Doc(FALSE, TRUE, h[1], h[2], h[3], c) :
            h \in {<<<<>>, FALSE, <<>>>>, <<Chapter, FALSE, <<>>>>, <<Toc, FALSE, <<>>>>,
                   <<<<"T", "o", "c">>, FALSE, <<>>>>, <<<<>>, TRUE, Toc>>,
                   <<Chapter, TRUE, Toc>>},
            c \in Bodies}

FilterLangs == {"eng", "und"}

FilterInit ==
    /\ f_pc = "parse"
    /\ f_doc \in Docs
    /\ f_lang \in FilterLangs
    /\ f_stanza \in BOOLEAN
    /\ f_compat \in BOOLEAN
    /\ tuples_list = <<>>
    /\ text_list = <<>>
    /\ clean_list = <<>>
    /\ f_text = <<>>
    /\ f_result = Pending
    /\ f_cause = ""

Return(result, cause) ==
    /\ f_pc' = "done"
    /\ f_result' = result
    /\ f_cause' = cause

Raise(cause) ==
    /\ f_pc' = "except"
    /\ f_cause' = cause
    /\ UNCHANGED f_result

\* Lines 150-169: read and parse the content, the empty body, the excluded types
Parse ==
    /\ f_pc = "parse"
    /\ IF f_doc.raises THEN Raise("markup")
       ELSE IF ~f_doc.body \/ GetText(f_doc.children) = <<>>
       THEN Return(ListResult(<<>>), "empty_body")
       ELSE IF is_excluded(epub_type(f_doc)) THEN Return(ListResult(<<>>), "excluded")
       ELSE /\ f_pc' = "extract"
            /\ UNCHANGED <<f_result, f_cause>>
    /\ UNCHANGED <<f_doc, f_lang, f_stanza, f_compat, tuples_list, text_list,
                   clean_list, f_text>>

\* Lines 176-180: the tuples of the body
Extract ==
    /\ f_pc = "extract"
    /\ tuples_list' = tuple_row(f_doc.children, "")
    /\ IF tuples_list' = <<>> THEN Return(NoneResult, "no_tuples")
       ELSE /\ f_pc' = "flatten"
            /\ UNCHANGED <<f_result, f_cause>>
    /\ UNCHANGED <<f_doc, f_lang, f_stanza, f_compat, text_list, clean_list, f_text>>

\* Lines 183-284: the text list, the break optimisation, the joined text
FlattenText ==
    /\ f_pc = "flatten"
    /\ text_list' = TextList(tuples_list, {}, "")
    /\ IF f_lang \notin DOMAIN language_mapping
       THEN /\ Raise("language")
            /\ UNCHANGED <<clean_list, f_text>>
       ELSE /\ clean_list' = CleanList(text_list', 1, <<>>, Budget(f_lang))
            /\ f_text' = Join(clean_list', <<" ">>)
            /\ IF ~HasAlnum(f_text') THEN Return(NoneResult, "no_text")
               ELSE /\ f_pc' = "dates"
                    /\ UNCHANGED <<f_result, f_cause>>
    /\ UNCHANGED <<f_doc, f_lang, f_stanza, f_compat, tuples_list>>

\* Lines 286-363: dates, ordinals and years
Dates ==
    /\ f_pc = "dates"
    /\ \E date_spans \in IF asks_date_entities(f_text, f_stanza)
                         THEN SpanChoices(f_text) ELSE {<<>>} :
          LET r == date_stage(f_text, f_stanza, f_compat, date_spans)
          IN  IF r.ok
              THEN /\ f_text' = r.text
                   /\ f_pc' = "convert"
                   /\ UNCHANGED <<f_result, f_cause>>
              ELSE /\ Raise(r.cause)
                   /\ UNCHANGED f_text
    /\ UNCHANGED <<f_doc, f_lang, f_stanza, f_compat, tuples_list, text_list, clean_list>>

\* Lines 365-369: the text becomes what roman2number returns, an integer or
\* None, and the regular expression of clock2words raises TypeError on it
Convert ==
    /\ f_pc = "convert"
    /\ roman2number(StrVal(f_text)).kind # "str"
    /\ Raise("roman")
    /\ UNCHANGED <<f_doc, f_lang, f_stanza, f_compat, tuples_list, text_list,
                   clean_list, f_text>>

\* What "from lib.functions import is_gui_process" finds in the handler
GuiStates == {"gui", "cli", "missing"}

\* DependencyError(error): handle_exception imports the flag, which raises
\* ImportError when the name is missing, and exits the process when it is false
DependencyError(is_gui_process) ==
    CASE is_gui_process = "missing" -> RaiseResult
      [] is_gui_process = "cli" -> ExitResult
      [] OTHER -> NoneResult

\* Lines 391-394: the handler of filter_chapter
Except ==
    /\ f_pc = "except"
    /\ \E is_gui_process \in GuiStates :
          f_result' = DependencyError(is_gui_process)
    /\ f_pc' = "done"
    /\ UNCHANGED <<f_doc, f_lang, f_stanza, f_compat, tuples_list, text_list,
                   clean_list, f_text, f_cause>>

(***************************************************************************)
(* get_chapters: the loop over the spine documents.                        *)
(***************************************************************************)
\* What filter_chapter hands back for one document
DocResults ==
    {NoneResult, ExitResult, ListResult(<<>>), ListResult(<<<<"a", ".">>>>),
     ListResult(<<<<"b", ".">>, <<"a">>>>)}

ChPending == [kind |-> "pending", chapters |-> <<>>]

ChaptersInit ==
    /\ ch_pc = "start"
    /\ ch_cancel \in BOOLEAN
    /\ all_docs \in UNION {[1..n -> DocResults] : n \in 0..MaxDocs}
    /\ ch_i = 1
    /\ chapters = <<>>
    /\ ch_result = ChPending

\* Lines 119-136: the cancellation, the spine documents
Start ==
    /\ ch_pc = "start"
    /\ IF ch_cancel
       THEN ch_pc' = "done" /\ ch_result' = [kind |-> "cancelled", chapters |-> <<>>]
       ELSE IF all_docs = <<>>
       THEN ch_pc' = "done" /\ ch_result' = [kind |-> "empty", chapters |-> <<>>]
       ELSE ch_pc' = "loop" /\ UNCHANGED ch_result
    /\ UNCHANGED <<ch_cancel, all_docs, ch_i, chapters>>

\* Lines 157-170: one document of the loop
FilterDoc ==
    /\ ch_pc = "loop"
    /\ ch_i <= Len(all_docs)
    /\ LET sentences_list == all_docs[ch_i]
       IN  IF sentences_list.kind = "exit"
           THEN /\ ch_pc' = "done"
                /\ ch_result' = [kind |-> "exit", chapters |-> <<>>]
                /\ UNCHANGED <<ch_i, chapters>>
           ELSE IF sentences_list.kind = "none"
           THEN /\ ch_pc' = "after"
                /\ UNCHANGED <<ch_i, chapters, ch_result>>
           ELSE /\ chapters' = IF Len(sentences_list.list) > 0
                               THEN Append(chapters, sentences_list.list)
                               ELSE chapters
                /\ ch_i' = ch_i + 1
                /\ ch_pc' = IF ch_i + 1 > Len(all_docs) THEN "after" ELSE "loop"
                /\ UNCHANGED ch_result
    /\ UNCHANGED <<ch_cancel, all_docs>>

\* Lines 172-177: the result
ReturnChapters ==
    /\ ch_pc = "after"
    /\ ch_pc' = "done"
    /\ ch_result' = IF Len(chapters) = 0
                    THEN [kind |-> "failed", chapters |-> <<>>]
                    ELSE [kind |-> "success", chapters |-> chapters]
    /\ UNCHANGED <<ch_cancel, all_docs, ch_i, chapters>>

(***************************************************************************)
(* set_formatted_number: the numbers of a text become words.  The texts    *)
(* of the model hold no ".", so the decimal part of the pattern, an        *)
(* optional group, matches nowhere.                                        *)
(***************************************************************************)
\* {1,18}: the digits one \d group of number_re takes
MaxGroupDigits == 18
\* The digits of max_single_value, 999_999_999_999_999_999
MaxSingleDigits == 18

\* \d{1,18}(?:,\s*\d{1,18})* matched at i: the end of the match, or 0
NumberEnd(s, i) ==
    LET Group(j) ==
            LET d == DigitsEnd(s, j)
            IN  IF d >= j + MaxGroupDigits THEN j + MaxGroupDigits - 1 ELSE d
        RECURSIVE Commas(_)
        Commas(e) ==
            LET j == SpacesEnd(s, e + 2) + 1
            IN  IF At(s, e + 1) = "," /\ Group(j) >= j THEN Commas(Group(j)) ELSE e
    IN  IF Group(i) < i THEN 0 ELSE Commas(Group(i))

\* clean_single_num(num_str): the words of a number, or the token itself
\* when its value is over max_single_value
clean_single_num(num_str, is_num2words_compat) ==
    LET clean == SelectSeq(num_str, IsDigit)
        RECURSIVE StrInt(_)
        \* str(int(clean)): the leading zeros go
        StrInt(ds) == IF Len(ds) > 1 /\ Head(ds) = "0" THEN StrInt(Tail(ds)) ELSE ds
        num == StrInt(clean)
    IN  IF Len(num) > MaxSingleDigits THEN num_str
        ELSE IF is_num2words_compat
             THEN [k \in 1..Len(num) |-> DigitWord(num[k])]
             ELSE Spell(num)

\* number_re.sub(clean_match, text)
set_formatted_number(text, is_num2words_compat) ==
    LET \* [^\w\s]* from i
        RECURSIVE PunctEnd(_)
        PunctEnd(i) ==
            IF i <= Len(text) /\ ~IsWordChar(text[i]) /\ ~IsSpace(text[i])
            THEN PunctEnd(i + 1) ELSE i - 1
        \* clean_match of a match: its first number, its dash, its second
        \* number and the end e of the numbers; the value holds the end of
        \* the match with its trailing punctuation
        clean_match(first, dash, second, e) ==
            [end |-> PunctEnd(e + 1),
             text |-> clean_single_num(first, is_num2words_compat)
                      \o (IF second # <<>>
                          THEN dash \o clean_single_num(second, is_num2words_compat)
                          ELSE <<>>)
                      \o SubSeq(text, e + 1, PunctEnd(e + 1))]
        \* the match at i whose first number ends at f: d is the place of the
        \* dash, j the start and g the end of the second number (0 when none)
        Match(i, f, d, j, g) ==
            IF g > 0
            THEN clean_match(SubSeq(text, i, f), <<text[d]>>, SubSeq(text, j, g), g)
            ELSE clean_match(SubSeq(text, i, f), <<>>, <<>>, f)
        SecondEnd(d, j) == IF At(text, d) \in {"-", "^"} THEN NumberEnd(text, j) ELSE 0
        Second(i, f, d, j) == Match(i, f, d, j, SecondEnd(d, j))
        Dash(i, f, d) == Second(i, f, d, SpacesEnd(text, d + 1) + 1)
        RECURSIVE Sub(_)
        Sub(i) ==
            LET Rest(m) == m.text \o Sub(m.end + 1)
                First(f) == IF ~IsWordChar(At(text, i - 1)) /\ f > 0
                            THEN Rest(Dash(i, f, SpacesEnd(text, f + 1) + 1))
                            ELSE <<text[i]>> \o Sub(i + 1)
            IN  IF i > Len(text) THEN <<>> ELSE First(NumberEnd(text, i))
    IN  Sub(1)

(***************************************************************************)
(* normalize_text: the cleaning chain of a chapter's text.  The tables of  *)
(* lib.lang are stood for by one entry each; the texts of the model hold   *)
(* neither "\r" nor a non-breaking space.                                  *)
(***************************************************************************)
emojis_list == {"@"}
abbreviations_mapping ==
    [eng |-> {[key |-> <<"d", "r", ".">>, expansion |-> <<"d", "o", "c", "t", "o", "r">>]}]
punctuation_switch == [c \in {";"} |-> <<",">>]
specialchars_mapping == [eng |-> [c \in {"&"} |-> <<"a", "n", "d">>]]

\* re.sub(pattern, f" {value} ", text) of filter_sml, for one key in brackets
filter_sml(text) ==
    LET RECURSIVE Sub(_, _, _, _)
        Sub(s, i, tag, value) ==
            IF i > Len(s) THEN <<>>
            ELSE IF StartsWithAt(s, i, tag)
                 THEN <<" ">> \o value \o <<" ">> \o Sub(s, i + Len(tag), tag, value)
                 ELSE <<s[i]>> \o Sub(s, i + 1, tag, value)
        breaks == Sub(text, 1, <<"[", "b", "r", "e", "a", "k", "]">>, TTS_SML_break)
    IN  Sub(breaks, 1, <<"[", "p", "a", "u", "s", "e", "]">>, TTS_SML_pause)

normalize_text(text, lang) ==
    LET IsLetter(c) == c \in Letters
        Up(c) == CASE c = "a" -> "A" [] c = "o" -> "O" [] c = "k" -> "K"
                   [] c = "d" -> "D" [] c = "r" -> "R" [] c = "y" -> "Y"
                   [] OTHER -> c
        Low(c) == CASE c = "A" -> "a" [] c = "O" -> "o" [] c = "K" -> "k"
                    [] c = "D" -> "d" [] c = "R" -> "r" [] c = "Y" -> "y"
                    [] OTHER -> c
        \* the text matches `key` at i, whatever the case
        MatchesAt(s, i, key) ==
            /\ i + Len(key) - 1 <= Len(s)
            /\ \A k \in 1..Len(key) : Low(s[i + k - 1]) = Low(key[k])
        \* Remove emojis
        NoEmoji(s) == SelectSeq(s, LAMBDA c : c \notin emojis_list)
        \* Expand abbreviations: (?<!\w)(keys, longest first)(?!\w)
        RECURSIVE Abbreviations(_, _)
        Abbreviations(s, i) ==
            IF i > Len(s) THEN <<>>
            ELSE LET hits == {a \in abbreviations_mapping[lang] :
                                  /\ MatchesAt(s, i, a.key)
                                  /\ ~IsWordChar(At(s, i - 1))
                                  /\ ~IsWordChar(At(s, i + Len(a.key)))}
                     hit == CHOOSE a \in hits : \A b \in hits : Len(b.key) <= Len(a.key)
                 IN  IF hits # {}
                     THEN hit.expansion \o Abbreviations(s, i + Len(hit.key))
                     ELSE <<s[i]>> \o Abbreviations(s, i + 1)
        \* ([a-zA-Z]\.)+ from i: the end of the pairs (i - 1 when there is none)
        RECURSIVE PairsEnd(_, _)
        PairsEnd(s, i) ==
            IF IsLetter(At(s, i)) /\ At(s, i + 1) = "." THEN PairsEnd(s, i + 2) ELSE i - 1
        \* \b(?:[a-zA-Z]\.){1,}[a-zA-Z]?\b\.? matched at i: the end, or 0
        AcronymEnd(s, i) ==
            LET p == PairsEnd(s, i) + 1
            IN  IF IsWordChar(At(s, i - 1)) \/ p = i THEN 0
                ELSE IF IsLetter(At(s, p)) /\ ~IsWordChar(At(s, p + 1)) THEN p
                ELSE IF IsWordChar(At(s, p)) THEN p - 1
                ELSE IF p - i >= 4 THEN p - 1
                ELSE 0
        RECURSIVE Acronyms(_, _)
        Acronyms(s, i) ==
            IF i > Len(s) THEN <<>>
            ELSE LET e == AcronymEnd(s, i)
                     m == SelectSeq(SubSeq(s, i, e), LAMBDA c : c # ".")
                 IN  IF e > 0
                     THEN [k \in 1..Len(m) |-> Up(m[k])] \o Acronyms(s, e + 1)
                     ELSE <<s[i]>> \o Acronyms(s, i + 1)
        \* (?:\r\n|\r|\n){2,} becomes a pause, a single newline a space
        RECURSIVE NewlinesEnd(_, _)
        NewlinesEnd(s, i) == IF At(s, i) = "\n" THEN NewlinesEnd(s, i + 1) ELSE i - 1
        RECURSIVE Newlines(_, _)
        Newlines(s, i) ==
            IF i > Len(s) THEN <<>>
            ELSE LET e == NewlinesEnd(s, i)
                 IN  IF e > i THEN <<" ">> \o TTS_SML_pause \o <<" ">> \o Newlines(s, e + 1)
                     ELSE IF e = i THEN <<" ">> \o Newlines(s, i + 1)
                     ELSE <<s[i]>> \o Newlines(s, i + 1)
        \* Replace punctuations causing hallucinations
        Switch(s) ==
            Flatten([k \in 1..Len(s) |->
                        IF s[k] \in DOMAIN punctuation_switch
                        THEN punctuation_switch[s[k]] ELSE <<s[k]>>])
        \* \s+ becomes one space
        RECURSIVE Spaces(_, _)
        Spaces(s, i) ==
            IF i > Len(s) THEN <<>>
            ELSE IF IsSpace(s[i]) THEN <<" ">> \o Spaces(s, SpacesEnd(s, i) + 1)
            ELSE <<s[i]>> \o Spaces(s, i + 1)
        \* \bok\b becomes Okay, whatever the case
        RECURSIVE Okay(_, _)
        Okay(s, i) ==
            IF i > Len(s) THEN <<>>
            ELSE IF /\ MatchesAt(s, i, <<"o", "k">>)
                    /\ ~IsWordChar(At(s, i - 1)) /\ ~IsWordChar(At(s, i + 2))
                 THEN <<"O", "k", "a", "y">> \o Okay(s, i + 2)
                 ELSE <<s[i]>> \o Okay(s, i + 1)
        \* [^)]+ from i
        RECURSIVE InnerEnd(_, _)
        InnerEnd(s, i) ==
            IF i <= Len(s) /\ s[i] # ")" THEN InnerEnd(s, i + 1) ELSE i - 1
        \* \(([^)]+)\) becomes "\1"
        RECURSIVE Parentheses(_, _)
        Parentheses(s, i) ==
            IF i > Len(s) THEN <<>>
            ELSE LET e == InnerEnd(s, i + 1)
                 IN  IF s[i] = "(" /\ e > i /\ At(s, e + 1) = ")"
                     THEN <<"\"">> \o SubSeq(s, i + 1, e) \o <<"\"">>
                          \o Parentheses(s, e + 2)
                     ELSE <<s[i]>> \o Parentheses(s, i + 1)
        \* (\s*(P)\s*)+ from i: the end of the run of spaces and marks of P
        RECURSIVE RunEnd(_, _, _)
        RunEnd(s, i, P) ==
            IF IsSpace(At(s, i)) \/ At(s, i) \in P THEN RunEnd(s, i + 1, P) ELSE i - 1
        \* re.sub(rf'(\s*({pattern})\s*)+', r'\2 ', text)
        RECURSIVE Reduce(_, _, _)
        Reduce(s, i, P) ==
            IF i > Len(s) THEN <<>>
            ELSE LET e == RunEnd(s, i, P)
                     marks == SelectSeq(SubSeq(s, i, e), LAMBDA c : c \in P)
                 IN  IF marks # <<>>
                     THEN <<marks[Len(marks)], " ">> \o Reduce(s, e + 1, P)
                     ELSE <<s[i]>> \o Reduce(s, i + 1, P)
        \* (?<=[\p{L}])(?=\d)|(?<=\d)(?=[\p{L}]) becomes a space
        RECURSIVE Glued(_, _)
        Glued(s, i) ==
            IF i > Len(s) THEN <<>>
            ELSE (IF \/ IsLetter(At(s, i - 1)) /\ IsDigit(s[i])
                     \/ IsDigit(At(s, i - 1)) /\ IsLetter(s[i])
                  THEN <<" ">> ELSE <<>>)
                 \o <<s[i]>> \o Glued(s, i + 1)
        \* text.translate(specialchars_table)
        specialchars ==
            IF lang \in DOMAIN specialchars_mapping
            THEN specialchars_mapping[lang] ELSE specialchars_mapping["eng"]
        SpecialChars(s) ==
            Flatten([k \in 1..Len(s) |->
                        IF s[k] \in DOMAIN specialchars
                        THEN <<" ">> \o specialchars[s[k]] \o <<" ">> ELSE <<s[k]>>])
        t1 == NoEmoji(text)
        t2 == IF lang \in DOMAIN abbreviations_mapping THEN Abbreviations(t1, 1) ELSE t1
        t3 == filter_sml(Acronyms(t2, 1))
        t4 == Spaces(Switch(Newlines(t3, 1)), 1)
        t5 == Parentheses(Okay(t4, 1), 1)
        t6 == Strip(Reduce(t5, 1, punctuation_split_hard_set))
        t7 == Strip(Reduce(t6, 1, punctuation_split_soft_set))
        t8 == SpecialChars(Glued(t7, 1))
    IN  \* ' '.join(text.split())
        Strip(Spaces(t8, 1))

(***************************************************************************)
(* math2words: the ordinals, the symbols and the numbers of a text become  *)
(* words.                                                                  *)
(***************************************************************************)
\* The words of the symbols in the table of the language; the words of the
\* digits are DigitWord.
language_math_phonemes ==
    [c \in {"+", "-", "/", "*", "x"} |->
        CASE c = "+" -> <<"p", "l", "u", "s">>
          [] c = "-" -> <<"m", "i", "n", "u", "s">>
          [] c = "/" -> <<"o", "v", "e", "r">>
          [] OTHER -> <<"t", "i", "m", "e", "s">>]
ambiguous_symbols == {"-", "/", "*", "x"}

math2words(text, is_num2words_compat) ==
    LET normal_replacements == DOMAIN language_math_phonemes \ ambiguous_symbols
        ambiguous_replacements == DOMAIN language_math_phonemes \cap ambiguous_symbols
        NotNonSpace(c) == c = "" \/ IsSpace(c)
        \* re.sub(r'(\d)\)', r'\1 : ', text)
        RECURSIVE Parens(_, _)
        Parens(s, i) ==
            IF i > Len(s) THEN <<>>
            ELSE IF IsDigit(s[i]) /\ At(s, i + 1) = ")"
                 THEN <<s[i], " ", ":", " ">> \o Parens(s, i + 2)
                 ELSE <<s[i]>> \o Parens(s, i + 1)
        \* re_ordinal matched at i: the end of the match, or 0
        OrdinalEnd(s, i) ==
            LET d == DigitsEnd(s, i)
                j == SpacesEnd(s, d + 1) + 1
            IN  IF /\ ~IsWordChar(At(s, i - 1)) /\ d >= i
                   /\ \E suffix \in ordinal_suffixes : StartsWithAt(s, j, suffix)
                   /\ ~IsWordChar(At(s, j + 2))
                THEN j + 1 ELSE 0
        \* re_ordinal.sub(_ordinal_to_words, text)
        RECURSIVE Ordinals(_, _)
        Ordinals(s, i) ==
            IF i > Len(s) THEN <<>>
            ELSE LET e == OrdinalEnd(s, i)
                 IN  IF e > 0
                     THEN (IF is_num2words_compat
                           THEN Ordinal(IntOf(SubSeq(s, i, DigitsEnd(s, i))))
                           ELSE SubSeq(s, i, e))
                          \o Ordinals(s, e + 1)
                     ELSE <<s[i]>> \o Ordinals(s, i + 1)
        \* Replace unambiguous symbols everywhere
        Symbols(s) ==
            Flatten([k \in 1..Len(s) |->
                        IF s[k] \in normal_replacements
                        THEN <<" ">> \o language_math_phonemes[s[k]] \o <<" ">>
                        ELSE <<s[k]>>])
        \* (\d+)\s*([-/*x])\s*(\d+)(?!\S) from i: the end d of the first
        \* number, the place k of the symbol, the start j and the end e of
        \* the second number; all 0 when there is no match
        Between(s, i) ==
            LET Ends(d, k, j, e) ==
                    IF /\ d >= i /\ At(s, k) \in ambiguous_symbols
                       /\ e >= j /\ NotNonSpace(At(s, e + 1))
                    THEN [first |-> d, symbol |-> k, second |-> j, end |-> e]
                    ELSE [first |-> 0, symbol |-> 0, second |-> 0, end |-> 0]
                Second(d, k, j) == Ends(d, k, j, DigitsEnd(s, j))
                Symbol(d, k) == Second(d, k, SpacesEnd(s, k + 1) + 1)
            IN  Symbol(DigitsEnd(s, i), SpacesEnd(s, DigitsEnd(s, i) + 1) + 1)
        \* ([-/*x])\s*(\d+)(?!\S) from i: the end of the match, or 0
        LeadingEnd(s, i) ==
            LET End(j, e) ==
                    IF At(s, i) \in ambiguous_symbols /\ e >= j /\ NotNonSpace(At(s, e + 1))
                    THEN e ELSE 0
                Number(j) == End(j, DigitsEnd(s, j))
            IN  Number(SpacesEnd(s, i + 1) + 1)
        \* re.sub(ambiguous_pattern, repl_ambiguous, text): a match of the
        \* second alternative has no group 2 and no group 3 and stays as it is
        RECURSIVE Ambiguous(_, _)
        Ambiguous(s, i) ==
            LET repl_ambiguous(m, e) ==
                    IF NotNonSpace(At(s, i - 1)) /\ m.end > 0
                    THEN (IF s[m.symbol] \in ambiguous_replacements
                          THEN SubSeq(s, i, m.first) \o <<" ">>
                               \o language_math_phonemes[s[m.symbol]] \o <<" ">>
                               \o SubSeq(s, m.second, m.end)
                          ELSE SubSeq(s, i, m.end))
                         \o Ambiguous(s, m.end + 1)
                    ELSE IF NotNonSpace(At(s, i - 1)) /\ e > 0
                    THEN SubSeq(s, i, e) \o Ambiguous(s, e + 1)
                    ELSE <<s[i]>> \o Ambiguous(s, i + 1)
            IN  IF i > Len(s) THEN <<>>
                ELSE repl_ambiguous(Between(s, i), LeadingEnd(s, i))
        \* the symbols that are never ambiguous, then the ambiguous ones
        Normal(t) == IF normal_replacements # {} THEN Symbols(t) ELSE t
        Contextual(t) == IF ambiguous_replacements # {} THEN Ambiguous(t, 1) ELSE t
    IN  set_formatted_number(Contextual(Normal(Ordinals(Parens(text, 1), 1))),
                             is_num2words_compat)

(***************************************************************************)
(* clock2words: the times of a text become phrases.  A template of the     *)
(* language is a sequence of characters and of placeholder names.          *)
(***************************************************************************)
language_clock ==
    [eng |-> [
          oclock |-> <<"hour", " ", "o", "c", "l", "o", "c", "k">>,
          quarter_past |-> <<"q", "u", "a", "r", "t", "e", "r", " ", "p",
                  "a", "s", "t", " ", "hour">>,
          half_past |-> <<"h", "a", "l", "f", " ", "p", "a", "s", "t", " ",
                  "hour">>,
          quarter_to |-> <<"q", "u", "a", "r", "t", "e", "r", " ", "t", "o",
                  " ", "next_hour">>,
          past |-> <<"minute", " ", "p", "a", "s", "t", " ", "hour">>,
          to |-> <<"minute", " ", "t", "o", " ", "next_hour">>,
          second |-> <<"second", " ", "s", "e", "c", "o", "n", "d", "s">>,
          full |-> <<"phrase", " ", "a", "n", "d", " ", "second_phrase">>,
          special_hours |-> [h \in {0, 12} |-> IF h = 0 THEN <<"m", "i", "d",
                  "n", "i", "g", "h", "t">> ELSE <<"n", "o", "o", "n">>]],
     deu |-> [
          oclock |-> <<"hour", " ", "u", "h", "r">>,
          quarter_past |-> <<"v", "i", "e", "r", "t", "e", "l", " ", "n",
                  "a", "c", "h", " ", "hour">>,
          half_past |-> <<"h", "a", "l", "b", " ", "next_hour">>,
          quarter_to |-> <<"v", "i", "e", "r", "t", "e", "l", " ", "v", "o",
                  "r", " ", "next_hour">>,
          past |-> <<"minute", " ", "n", "a", "c", "h", " ", "hour">>,
          to |-> <<"minute", " ", "v", "o", "r", " ", "next_hour">>,
          second |-> <<"second", " ", "s", "e", "k", "u", "n", "d", "e",
                  "n">>,
          full |-> <<"phrase", " ", "u", "n", "d", " ", "second_phrase">>,
          special_hours |-> [h \in {0} |-> <<"m", "i", "t", "t", "e", "r",
                  "n", "a", "c", "h", "t">>]]]
clock2words(text, lang, is_num2words_compat) ==
    LET lc == language_clock[lang]
        \* template.format(**args)
        Format(template, args) ==
            Flatten([k \in 1..Len(template) |->
                        IF template[k] \in DOMAIN args
                        THEN args[template[k]] ELSE <<template[k]>>])
        n2w(n) == IF is_num2words_compat THEN Words(n)
                  ELSE math2words(Decimal(n), is_num2words_compat)
        \* template.format(name=n2w(number), ...)
        FormatNumbers(template, numbers) ==
            Format(template, [a \in DOMAIN numbers |-> n2w(numbers[a])])
        \* \d{1,2} from i: the end of the digits taken (i - 1 when none)
        TwoEnd(i) ==
            LET d == DigitsEnd(text, i) IN IF d > i + 1 THEN i + 1 ELSE d
        IsSep(c) == c \in {":", "."}
        \* time_rx matched at i: the ends of its groups, hour = 0 when no match
        Groups(i) ==
            LET d1 == TwoEnd(i)
                d2 == TwoEnd(d1 + 2)
                d3 == TwoEnd(d2 + 2)
            IN  IF d1 >= i /\ IsSep(At(text, d1 + 1)) /\ d2 >= d1 + 2
                THEN [hour |-> d1, minute |-> d2,
                      second |-> IF IsSep(At(text, d2 + 1)) /\ d3 >= d2 + 2
                                 THEN d3 ELSE 0]
                ELSE [hour |-> 0, minute |-> 0, second |-> 0]
        \* the main phrase of h:mnt
        Phrase(h, mnt, has_sec, sec) ==
            LET next_hour == (h + 1) % 24
                hour_args == [a \in {"hour"} |-> h]
                next_args == [a \in {"next_hour"} |-> next_hour]
                \* the template of the phrase and the numbers it is given
                main ==
                    IF mnt = 0 /\ (~has_sec \/ sec = 0)
                    THEN [template |-> lc.oclock, numbers |-> hour_args]
                    ELSE IF mnt = 15
                    THEN [template |-> lc.quarter_past, numbers |-> hour_args]
                    ELSE IF mnt = 30
                    THEN [template |-> lc.half_past,
                          numbers |-> IF lang = "deu" THEN next_args ELSE hour_args]
                    ELSE IF mnt = 45
                    THEN [template |-> lc.quarter_to, numbers |-> next_args]
                    ELSE IF mnt < 30
                    THEN IF mnt # 0
                         THEN [template |-> lc.past,
                               numbers |-> [a \in {"hour", "minute"} |->
                                               IF a = "hour" THEN h ELSE mnt]]
                         ELSE [template |-> lc.oclock, numbers |-> hour_args]
                    ELSE [template |-> lc.to,
                          numbers |-> [a \in {"next_hour", "minute"} |->
                                          IF a = "minute" THEN 60 - mnt ELSE next_hour]]
            IN  IF mnt = 0 /\ (~has_sec \/ sec = 0) /\ h \in DOMAIN lc.special_hours
                THEN lc.special_hours[h]
                ELSE FormatNumbers(main.template, main.numbers)
        \* the words of the match from i to end, read as h:mnt[:sec]
        Time(i, end, h, mnt, has_sec, sec, phrase) ==
            LET \* " ".join(parts) of the numbers said plainly
                parts == <<"hour">>
                         \o (IF mnt # 0 THEN <<" ", "minute">> ELSE <<>>)
                         \o (IF has_sec /\ sec > 0 THEN <<" ", "second">> ELSE <<>>)
                all == [a \in {"hour", "minute", "second"} |->
                           IF a = "hour" THEN h ELSE IF a = "minute" THEN mnt ELSE sec]
            IN  IF ~(h <= 23 /\ mnt <= 59 /\ (~has_sec \/ sec <= 59))
                THEN SubSeq(text, i, end)
                ELSE IF lang \notin DOMAIN language_clock
                THEN FormatNumbers(parts, all)
                ELSE IF has_sec /\ sec > 0
                THEN Format(lc.full,
                            [a \in {"phrase", "second_phrase"} |->
                                IF a = "phrase" THEN phrase
                                ELSE FormatNumbers(lc.second, [b \in {"second"} |-> sec])])
                ELSE phrase
        Parsed(i, end, h, mnt, has_sec, sec) ==
            Time(i, end, h, mnt, has_sec, sec, Phrase(h, mnt, has_sec, sec))
        \* repl_num of the match at i with the groups m
        repl_num(i, m) ==
            Parsed(i, IF m.second > 0 THEN m.second ELSE m.minute,
                   IntOf(SubSeq(text, i, m.hour)),
                   IntOf(SubSeq(text, m.hour + 2, m.minute)),
                   m.second > 0,
                   IF m.second > 0 THEN IntOf(SubSeq(text, m.minute + 2, m.second)) ELSE 0)
        RECURSIVE Sub(_)
        \* time_rx.sub(repl_num, text), from i
        Sub(i) ==
            IF i > Len(text) THEN <<>>
            ELSE LET m == Groups(i)
                 IN  IF m.hour > 0
                     THEN repl_num(i, m) \o Sub((IF m.second > 0 THEN m.second ELSE m.minute) + 1)
                     ELSE <<text[i]>> \o Sub(i + 1)
    IN  Sub(1)

(***************************************************************************)
(* The converters as a state machine: a converter and an input of its are  *)
(* drawn, the converter is applied to the input.                           *)
(***************************************************************************)
\* The longest input of set_formatted_number, in pieces
MaxNumAtoms == 4

\* The texts of at most n pieces out of `atoms`
RECURSIVE Texts(_, _)
Texts(atoms, n) ==
    IF n = 0 THEN {<<>>}
    ELSE LET shorter == Texts(atoms, n - 1)
         IN  shorter \cup {t \o a : t \in shorter, a \in atoms}

NineDigits == <<"1", "1", "1", "1", "1", "1", "1", "1", "1">>
\* The longest input of normalize_text, in pieces
MaxNormAtoms == 3
NormalizeInputs ==
    Texts({<<"a">>, <<"o", "k">>, <<"1">>, <<".">>, <<",">>, <<" ">>, <<"(">>, <<")">>,
           <<"\n">>, <<"@">>, <<";">>, <<"&">>, <<"d", "r", ".">>,
           <<"[", "b", "r", "e", "a", "k", "]">>}, MaxNormAtoms)

\* The longest input of math2words, in pieces
MaxMathAtoms == 3
MathInputs ==
    Texts({<<"1">>, <<"2">>, <<"-">>, <<"x">>, <<" ">>, <<"a">>, <<"+">>, <<")">>,
           <<"s", "t">>}, MaxMathAtoms)

\* The longest input of clock2words, in pieces
MaxClockAtoms == 3
ClockInputs ==
    Texts({<<"1", "4">>, <<"2">>, <<"0">>, <<":", "3", "0">>, <<":", "1", "5">>,
           <<":", "0", "0">>, <<":", "4", "5">>, <<":", "1", "0">>, <<":", "4", "0">>,
           <<" ">>}, MaxClockAtoms)
\* A language with half past the hour, one with half to the next hour, one
\* without clock rules
ClockLangs == {"eng", "deu", UnknownLang}

NumberInputs ==
    Texts({<<"1">>, <<"0">>, NineDigits, <<",">>, <<" ">>, <<"-">>, <<"a">>}, MaxNumAtoms)

\* the strings handed to year2words: digits, with a letter among them
MaxYearAtoms == 5
YearInputs == Texts({<<"1">>, <<"0">>, <<"9">>, <<"a">>}, MaxYearAtoms)

ConvertInit ==
    /\ cv_pc = "call"
    /\ cv_out = Raised("")
    /\ \/ /\ cv_fn = "set_formatted_number"
          /\ cv_text \in NumberInputs
          /\ cv_lang = "eng"
          /\ cv_compat \in BOOLEAN
       \/ /\ cv_fn = "normalize_text"
          /\ cv_text \in NormalizeInputs
          /\ cv_lang = "eng"
          /\ cv_compat = FALSE
       \/ /\ cv_fn = "math2words"
          /\ cv_text \in MathInputs
          /\ cv_lang = "eng"
          /\ cv_compat \in BOOLEAN
       \/ /\ cv_fn = "clock2words"
          /\ cv_text \in ClockInputs
          /\ cv_lang \in ClockLangs
          /\ cv_compat \in BOOLEAN
       \/ /\ cv_fn = "year2words"
          /\ cv_text \in YearInputs
          /\ cv_lang = "eng"
          /\ cv_compat \in BOOLEAN

SetFormattedNumber ==
    /\ cv_pc = "call" /\ cv_fn = "set_formatted_number"
    /\ cv_out' = Converted(set_formatted_number(cv_text, cv_compat))
    /\ cv_pc' = "done"
    /\ UNCHANGED <<cv_fn, cv_text, cv_lang, cv_compat>>

NormalizeText ==
    /\ cv_pc = "call" /\ cv_fn = "normalize_text"
    /\ cv_out' = Converted(normalize_text(cv_text, cv_lang))
    /\ cv_pc' = "done"
    /\ UNCHANGED <<cv_fn, cv_text, cv_lang, cv_compat>>

Math2Words ==
    /\ cv_pc = "call" /\ cv_fn = "math2words"
    /\ cv_out' = Converted(math2words(cv_text, cv_compat))
    /\ cv_pc' = "done"
    /\ UNCHANGED <<cv_fn, cv_text, cv_lang, cv_compat>>

Clock2Words ==
    /\ cv_pc = "call" /\ cv_fn = "clock2words"
    /\ cv_out' = Converted(clock2words(cv_text, cv_lang, cv_compat))
    /\ cv_pc' = "done"
    /\ UNCHANGED <<cv_fn, cv_text, cv_lang, cv_compat>>

\* int(s) of Python raises ValueError: s is empty or holds a character that
\* is no digit (the inputs hold no sign, blank or underscore)
IntRaises(s) == s = <<>> \/ \E k \in 1..Len(s) : ~IsDigit(s[k])

\* A call of year2words: the three int() conversions come first, inside the
\* try whose handler prints and raises again
Year2Words ==
    /\ cv_pc = "call" /\ cv_fn = "year2words"
    /\ LET n == Len(cv_text)
           first == SubSeq(cv_text, 1, IF n < 2 THEN n ELSE 2)
           last == SubSeq(cv_text, 3, n)
       IN  cv_out' = IF IntRaises(cv_text) \/ IntRaises(first) \/ IntRaises(last)
                     THEN Raised("ValueError")
                     ELSE Converted(year2words(cv_text, cv_compat))
    /\ cv_pc' = "done"
    /\ UNCHANGED <<cv_fn, cv_text, cv_lang, cv_compat>>

(***************************************************************************)
(* convert_chapters2audio (lib/audio/converter.py): the resume detection,  *)
(* the loop over the sentences of every chapter and the combination of a   *)
(* chapter's sentence files (lib/audio/combiner.py).  A file is named by   *)
(* its number.                                                             *)
(***************************************************************************)
\* Number of chapters of a session, and of rows of a chapter.
MaxAudioChapters == 2
MaxChapterRows == 2

\* row.strip() in TTS_SML.values()
IsMarkerRow(row) == Strip(row) \in sml_tokens

\* the rows of a chapter: a sentence or a marker
AudioRows == {<<"a">>, TTS_SML_break}
AudioChapters ==
    UNION {[1..n -> AudioRows] : n \in 1..MaxChapterRows}
AudioSessions ==
    UNION {[1..n -> AudioChapters] : n \in 1..MaxAudioChapters}

\* sum(1 for row in chapter if row.strip() not in TTS_SML.values())
SentencesCount(chapter) ==
    Cardinality({k \in 1..Len(chapter) : ~IsMarkerRow(chapter[k])})
RECURSIVE TotalSentences(_)
TotalSentences(session_chapters) ==
    IF session_chapters = <<>> THEN 0
    ELSE SentencesCount(Head(session_chapters)) + TotalSentences(Tail(session_chapters))

\* max(...) of the numbers of the existing files, 0 when there is none
ResumePoint(existing) ==
    IF existing = {} THEN 0 ELSE CHOOSE n \in existing : \A k \in existing : k <= n
\* the numbers from 1 below the resume point that have no file, and the
\* resume point itself; nothing when no file exists
MissingBelow(existing) ==
    IF existing = {} THEN {}
    ELSE ((1..(ResumePoint(existing) - 1)) \ existing) \cup {ResumePoint(existing)}

AudioInit ==
    /\ au_pc = "start"
    /\ au_chapters \in AudioSessions
    /\ au_sentence_files \in SUBSET (0..(TotalSentences(au_chapters) - 1))
    /\ au_chapter_files \in SUBSET (1..Len(au_chapters))
    /\ au_existing = au_sentence_files
    /\ resume_sentence = 0
    /\ missing_sentences = {}
    /\ resume_chapter = 0
    /\ missing_chapters = {}
    /\ au_x = 1
    /\ au_i = 1
    /\ sentence_number = 0
    /\ au_start = 0
    /\ au_converted = {}
    /\ au_ranges = <<>>
    /\ au_result = "pending"

\* The call up to the loop: the cancellation test, the engine, the resume
\* detection and the totals.
AudioStart ==
    /\ au_pc = "start"
    /\ \E cancellation_requested \in BOOLEAN, tts_manager \in BOOLEAN :
          IF cancellation_requested \/ ~tts_manager
             \/ Len(au_chapters) = 0 \/ TotalSentences(au_chapters) = 0
          THEN /\ au_pc' = "done"
               /\ au_result' = "false"
               /\ UNCHANGED <<resume_sentence, missing_sentences,
                              resume_chapter, missing_chapters>>
          ELSE /\ au_pc' = "sentence"
               /\ resume_chapter' = ResumePoint(au_chapter_files)
               /\ missing_chapters' = MissingBelow(au_chapter_files)
               /\ resume_sentence' = ResumePoint(au_sentence_files)
               /\ missing_sentences' = MissingBelow(au_sentence_files)
               /\ au_result' = "pending"
    /\ UNCHANGED <<au_chapters, au_sentence_files, au_chapter_files, au_existing,
                   au_x, au_i, sentence_number, au_start, au_converted, au_ranges>>

\* One turn of the loop over the rows of chapter au_x.
AudioSentence ==
    /\ au_pc = "sentence"
    /\ au_i <= Len(au_chapters[au_x])
    /\ LET sentence == au_chapters[au_x][au_i]
           needed == \/ sentence_number \in missing_sentences
                     \/ sentence_number > resume_sentence
                     \/ (sentence_number = 0 /\ resume_sentence = 0)
           spoken == needed /\ Strip(sentence) # <<>>
           Advance ==
               /\ sentence_number' = IF IsMarkerRow(sentence) THEN sentence_number
                                     ELSE sentence_number + 1
               /\ au_i' = au_i + 1
               /\ UNCHANGED <<au_pc, au_result>>
           Stop ==
               /\ au_pc' = "done"
               /\ au_result' = "false"
               /\ UNCHANGED <<sentence_number, au_i>>
       IN  \E cancellation_requested \in BOOLEAN, success \in BOOLEAN :
              IF cancellation_requested
              THEN Stop /\ UNCHANGED <<au_sentence_files, au_converted>>
              ELSE IF spoken /\ ~success
              THEN Stop /\ UNCHANGED <<au_sentence_files, au_converted>>
              ELSE /\ Advance
                   /\ IF spoken /\ ~IsMarkerRow(sentence)
                      THEN /\ au_sentence_files' = au_sentence_files \cup {sentence_number}
                           /\ au_converted' = au_converted \cup {sentence_number}
                      ELSE UNCHANGED <<au_sentence_files, au_converted>>
    /\ UNCHANGED <<au_chapters, au_chapter_files, au_existing, resume_sentence,
                   missing_sentences, resume_chapter, missing_chapters, au_x,
                   au_start, au_ranges>>

\* combine_audio_sentences(file, start, end, session) can succeed only when
\* a sentence file has its number in [start, end]
Selected(start, end) == {n \in au_sentence_files : start <= n /\ n <= end}

\* The end of chapter au_x: its range, the combination, the next chapter.
AudioCombine ==
    /\ au_pc = "sentence"
    /\ au_i > Len(au_chapters[au_x])
    /\ LET end == IF sentence_number > 1 THEN sentence_number - 1 ELSE sentence_number
           combines == au_x \in missing_chapters \/ sentence_number > resume_sentence
           Continue ==
               /\ au_pc' = IF au_x = Len(au_chapters) THEN "done" ELSE "sentence"
               /\ au_result' = IF au_x = Len(au_chapters) THEN "true" ELSE "pending"
               /\ au_x' = IF au_x = Len(au_chapters) THEN au_x ELSE au_x + 1
               /\ au_i' = 1
               /\ au_start' = sentence_number
       IN  IF ~combines
           THEN /\ Continue
                /\ UNCHANGED <<au_chapter_files, au_ranges>>
           ELSE /\ au_ranges' = Append(au_ranges,
                                       [chapter |-> au_x, start |-> au_start, end |-> end])
                /\ \E merged \in BOOLEAN :
                      IF Selected(au_start, end) # {} /\ merged
                      THEN /\ Continue
                           /\ au_chapter_files' = au_chapter_files \cup {au_x}
                      ELSE /\ au_pc' = "done"
                           /\ au_result' = "false"
                           /\ UNCHANGED <<au_chapter_files, au_x, au_i, au_start>>
    /\ UNCHANGED <<au_chapters, au_sentence_files, au_existing, resume_sentence,
                   missing_sentences, resume_chapter, missing_chapters,
                   sentence_number, au_converted>>

(***************************************************************************)
(* SessionPersistence.cleanup_old_sessions (lib/session_persistence.py):   *)
(* the sessions of the index are sorted into converting, incomplete and    *)
(* completed ones, then the incomplete sessions beyond the number to keep  *)
(* and the old completed sessions are deleted.  The whole call runs under  *)
(* the manager's lock; its position is kept to show the steps.             *)
(***************************************************************************)
\* Number of sessions of the index.
MaxSessions == 2
MAX_INCOMPLETE_SESSIONS == 4

\* last_access of an index entry, against the cutoff time
Ages == {"old", "recent", "invalid"}
\* the status stored in session_data.json, "absent" when there is no file
Stored == {"absent", "converting", "ready"}
\* an entry of index['sessions']; id 0 stands for no id
IndexEntries(n) ==
    [id : 0..n, completed : BOOLEAN, last_access : Ages]
Indexes ==
    UNION {{s \in [1..n -> IndexEntries(n)] :
               \A i, j \in 1..n : (i # j /\ s[i].id # 0) => s[i].id # s[j].id}
           : n \in 0..MaxSessions}

CleanupInit ==
    /\ cl_pc = "categorize"
    /\ cl_sessions \in Indexes
    /\ cl_disk \in [1..MaxSessions -> Stored]
    /\ cl_keep \in 0..MaxSessions
    /\ cl_i = 1
    /\ cl_converting = <<>>
    /\ cl_incomplete = <<>>
    /\ cl_completed = <<>>
    /\ sessions_to_delete = <<>>
    /\ cl_deleted = {}

\* _read_with_lock(session_file).get('status'): the stored status, None
\* when the read fails
ReadStatus(session_id, read_fails) ==
    IF read_fails THEN "none" ELSE cl_disk[session_id]

\* One turn of the loop that sorts the sessions.
Categorize ==
    /\ cl_pc = "categorize"
    /\ cl_i <= Len(cl_sessions)
    /\ LET s == cl_sessions[cl_i]
       IN  \E read_fails \in BOOLEAN :
              IF s.id = 0
              THEN UNCHANGED <<cl_converting, cl_incomplete, cl_completed>>
              ELSE IF cl_disk[s.id] # "absent"
                      /\ ReadStatus(s.id, read_fails) = "converting"
              THEN /\ cl_converting' = Append(cl_converting, s)
                   /\ UNCHANGED <<cl_incomplete, cl_completed>>
              ELSE IF s.completed
              THEN /\ cl_completed' = Append(cl_completed, s)
                   /\ UNCHANGED <<cl_converting, cl_incomplete>>
              ELSE /\ cl_incomplete' = Append(cl_incomplete, s)
                   /\ UNCHANGED <<cl_converting, cl_completed>>
    /\ cl_i' = cl_i + 1
    /\ UNCHANGED <<cl_pc, cl_sessions, cl_disk, cl_keep, sessions_to_delete, cl_deleted>>

\* incomplete[keep_incomplete:], then the completed sessions last accessed
\* before the cutoff time
SessionsToDelete(keep_incomplete) ==
    SubSeq(cl_incomplete, keep_incomplete + 1, Len(cl_incomplete))
        \o SelectSeq(cl_completed, LAMBDA s : s.last_access = "old")

\* The choice of the sessions to keep and to delete.
Select ==
    /\ cl_pc = "categorize"
    /\ cl_i > Len(cl_sessions)
    /\ sessions_to_delete' =
           SessionsToDelete(IF cl_keep = 0 THEN MAX_INCOMPLETE_SESSIONS ELSE cl_keep)
    /\ cl_pc' = "delete"
    /\ UNCHANGED <<cl_sessions, cl_disk, cl_keep, cl_i, cl_converting,
                   cl_incomplete, cl_completed, cl_deleted>>

\* delete_session(session['id']): the entry leaves the index, the directory
\* of the session is removed.
DeleteSession ==
    /\ cl_pc = "delete"
    /\ sessions_to_delete # <<>>
    /\ LET session_id == Head(sessions_to_delete).id
       IN  /\ cl_sessions' = SelectSeq(cl_sessions, LAMBDA s : s.id # session_id)
           /\ cl_deleted' = cl_deleted \cup {session_id}
    /\ sessions_to_delete' = Tail(sessions_to_delete)
    /\ UNCHANGED <<cl_pc, cl_disk, cl_keep, cl_i, cl_converting, cl_incomplete,
                   cl_completed>>

\* The end of the call.
CleanupComplete ==
    /\ cl_pc = "delete"
    /\ sessions_to_delete = <<>>
    /\ cl_pc' = "done"
    /\ UNCHANGED <<cl_sessions, cl_disk, cl_keep, cl_i, cl_converting,
                   cl_incomplete, cl_completed, sessions_to_delete, cl_deleted>>

(***************************************************************************)
(* DistributedCheckpointManager (lib/distributed/checkpoint_manager.py):   *)
(* workers update the checkpoint of one session, kept in Redis, each under *)
(* the session's lock.  The lock is a key set with NX and an expiry of     *)
(* lock_timeout seconds, so Redis removes it by itself when a holder is    *)
(* slow; every Redis command is one step.                                  *)
(***************************************************************************)
\* Number of workers, of chapters, and of calls in a run.
MaxWorkers == 2
MaxCkChapters == 2
MaxCalls == 3

Workers == 1..MaxWorkers
CkChapters == 1..MaxCkChapters
\* the value of the lock key when the key does not exist
NoLock == 0
\* the calls: mark_chapter_complete(c), mark_chapter_failed(c, error) and
\* save_checkpoint(stage, data) with data that names no chapter list
CkCalls ==
    [fn : {"mark_chapter_complete", "mark_chapter_failed"}, chapter_id : CkChapters]
        \cup {[fn |-> "save_checkpoint", chapter_id |-> 0]}
NoCall == [fn |-> "none", chapter_id |-> 0]
\* json.loads(data) of the checkpoint key, {} when the key does not exist
EmptyCheckpoint == [converted_chapters |-> {}, failed_chapters |-> {}, stage |-> "none"]

CheckpointInit ==
    /\ ck_pc = [w \in Workers |-> "idle"]
    /\ ck_call = [w \in Workers |-> NoCall]
    /\ ck_lock = NoLock
    /\ ck_stored = EmptyCheckpoint
    /\ checkpoint = [w \in Workers |-> EmptyCheckpoint]
    /\ current_value = [w \in Workers |-> NoLock]
    /\ ck_returned = {}
    /\ ck_calls = 0

\* A worker calls one of the three methods.
Call(w) ==
    /\ ck_pc[w] = "idle"
    /\ ck_calls < MaxCalls
    /\ \E c \in CkCalls : ck_call' = [ck_call EXCEPT ![w] = c]
    /\ ck_pc' = [ck_pc EXCEPT ![w] = "acquire"]
    /\ ck_calls' = ck_calls + 1
    /\ UNCHANGED <<ck_lock, ck_stored, checkpoint, current_value, ck_returned>>

\* _acquire_lock: redis.set(lock_key, lock_value, nx=True, ex=lock_timeout)
\* succeeds; the value of the lock names the worker.
Acquire(w) ==
    /\ ck_pc[w] = "acquire"
    /\ ck_lock = NoLock
    /\ ck_lock' = w
    /\ ck_pc' = [ck_pc EXCEPT ![w] = "load"]
    /\ UNCHANGED <<ck_call, ck_stored, checkpoint, current_value, ck_returned, ck_calls>>

\* _acquire_lock: the key was held at each of the 30 attempts, TimeoutError.
AcquireTimeout(w) ==
    /\ ck_pc[w] = "acquire"
    /\ ck_lock # NoLock
    /\ ck_pc' = [ck_pc EXCEPT ![w] = "idle"]
    /\ ck_call' = [ck_call EXCEPT ![w] = NoCall]
    /\ UNCHANGED <<ck_lock, ck_stored, checkpoint, current_value, ck_returned, ck_calls>>

\* Redis removes the lock key lock_timeout seconds after it was set.
LockExpires ==
    /\ ck_lock # NoLock
    /\ ck_lock' = NoLock
    /\ UNCHANGED <<ck_pc, ck_call, ck_stored, checkpoint, current_value, ck_returned,
                   ck_calls>>

\* checkpoint = self._load_from_redis()
Load(w) ==
    /\ ck_pc[w] = "load"
    /\ checkpoint' = [checkpoint EXCEPT ![w] = ck_stored]
    /\ ck_pc' = [ck_pc EXCEPT ![w] = "set"]
    /\ UNCHANGED <<ck_call, ck_lock, ck_stored, current_value, ck_returned, ck_calls>>

\* The checkpoint a call writes, from the one it loaded
Updated(call, loaded) ==
    IF call.fn = "mark_chapter_complete"
    THEN [loaded EXCEPT !.converted_chapters = @ \cup {call.chapter_id},
                        !.failed_chapters = @ \ {call.chapter_id}]
    ELSE IF call.fn = "mark_chapter_failed"
    THEN [loaded EXCEPT !.failed_chapters = @ \cup {call.chapter_id}]
    ELSE [loaded EXCEPT !.stage = "saved"]

\* self.redis.set(self.checkpoint_key, json.dumps(...))
Set(w) ==
    /\ ck_pc[w] = "set"
    /\ ck_stored' = Updated(ck_call[w], checkpoint[w])
    /\ ck_pc' = [ck_pc EXCEPT ![w] = "release"]
    /\ UNCHANGED <<ck_call, ck_lock, checkpoint, current_value, ck_returned, ck_calls>>

\* _acquire_lock, finally: current_value = self.redis.get(self.lock_key)
ReleaseGet(w) ==
    /\ ck_pc[w] = "release"
    /\ current_value' = [current_value EXCEPT ![w] = ck_lock]
    /\ ck_pc' = [ck_pc EXCEPT ![w] = "delete"]
    /\ UNCHANGED <<ck_call, ck_lock, ck_stored, checkpoint, ck_returned, ck_calls>>

\* _acquire_lock, finally: the key is deleted when the value read was the
\* worker's own; then the method returns.
ReleaseDelete(w) ==
    /\ ck_pc[w] = "delete"
    /\ ck_lock' = IF current_value[w] = w THEN NoLock ELSE ck_lock
    /\ ck_returned' = IF ck_call[w].fn = "mark_chapter_complete"
                      THEN ck_returned \cup {ck_call[w].chapter_id}
                      ELSE ck_returned
    /\ ck_pc' = [ck_pc EXCEPT ![w] = "idle"]
    /\ ck_call' = [ck_call EXCEPT ![w] = NoCall]
    /\ UNCHANGED <<ck_stored, checkpoint, current_value, ck_calls>>

(***************************************************************************)
(* The specifications: each runs one of the functions.                     *)
(***************************************************************************)
RomIdle == rom_pc = "idle" /\ rom_text = <<>> /\ rom_out = NoneVal
SegIdle == seg_pc = "idle" /\ seg_text = <<>> /\ seg_lang = "eng" /\ seg_out = NoResult
FilterIdle ==
    /\ f_pc = "idle"
    /\ f_doc = Doc(FALSE, FALSE, <<>>, FALSE, <<>>, <<>>)
    /\ f_lang = "eng"
    /\ f_stanza = FALSE
    /\ f_compat = FALSE
    /\ tuples_list = <<>>
    /\ text_list = <<>>
    /\ clean_list = <<>>
    /\ f_text = <<>>
    /\ f_result = Pending
    /\ f_cause = ""
ChaptersIdle ==
    /\ ch_pc = "idle"
    /\ ch_cancel = FALSE
    /\ all_docs = <<>>
    /\ ch_i = 1
    /\ chapters = <<>>
    /\ ch_result = ChPending

CvIdle ==
    /\ cv_pc = "idle"
    /\ cv_fn = ""
    /\ cv_text = <<>>
    /\ cv_lang = "eng"
    /\ cv_compat = FALSE
    /\ cv_out = Raised("")

AudioIdle ==
    /\ au_pc = "idle"
    /\ au_chapters = <<>>
    /\ au_sentence_files = {}
    /\ au_chapter_files = {}
    /\ au_existing = {}
    /\ resume_sentence = 0
    /\ missing_sentences = {}
    /\ resume_chapter = 0
    /\ missing_chapters = {}
    /\ au_x = 1
    /\ au_i = 1
    /\ sentence_number = 0
    /\ au_start = 0
    /\ au_converted = {}
    /\ au_ranges = <<>>
    /\ au_result = "pending"

CleanupIdle ==
    /\ cl_pc = "idle"
    /\ cl_sessions = <<>>
    /\ cl_disk = <<>>
    /\ cl_keep = 0
    /\ cl_i = 1
    /\ cl_converting = <<>>
    /\ cl_incomplete = <<>>
    /\ cl_completed = <<>>
    /\ sessions_to_delete = <<>>
    /\ cl_deleted = {}

CheckpointIdle ==
    /\ ck_pc = <<>>
    /\ ck_call = <<>>
    /\ ck_lock = 0
    /\ ck_stored = <<>>
    /\ checkpoint = <<>>
    /\ current_value = <<>>
    /\ ck_returned = {}
    /\ ck_calls = 0

InitSeg == SegInit /\ RomIdle /\ FilterIdle /\ ChaptersIdle /\ CvIdle /\ AudioIdle /\ CleanupIdle /\ CheckpointIdle
SpecSeg ==
    /\ InitSeg
    /\ [][GetSentences /\ UNCHANGED <<rom_vars, f_vars, ch_vars, cv_vars, au_vars, cl_vars, ck_vars>>]_vars

InitRoman == RomInit /\ SegIdle /\ FilterIdle /\ ChaptersIdle /\ CvIdle /\ AudioIdle /\ CleanupIdle /\ CheckpointIdle
SpecRoman ==
    /\ InitRoman
    /\ [][Roman2Number /\ UNCHANGED <<seg_vars, f_vars, ch_vars, cv_vars, au_vars, cl_vars, ck_vars>>]_vars

FilterRest == UNCHANGED <<seg_vars, rom_vars, ch_vars, cv_vars, au_vars, cl_vars, ck_vars>>
FilterNext ==
    \/ Parse /\ FilterRest
    \/ Extract /\ FilterRest
    \/ FlattenText /\ FilterRest
    \/ Dates /\ FilterRest
    \/ Convert /\ FilterRest
    \/ Except /\ FilterRest
InitFilter == FilterInit /\ SegIdle /\ RomIdle /\ ChaptersIdle /\ CvIdle /\ AudioIdle /\ CleanupIdle /\ CheckpointIdle
SpecFilter ==
    /\ InitFilter
    /\ [][FilterNext]_vars

ChaptersRest == UNCHANGED <<seg_vars, rom_vars, f_vars, cv_vars, au_vars, cl_vars, ck_vars>>
ChaptersNext ==
    \/ Start /\ ChaptersRest
    \/ FilterDoc /\ ChaptersRest
    \/ ReturnChapters /\ ChaptersRest
InitChapters == ChaptersInit /\ SegIdle /\ RomIdle /\ FilterIdle /\ CvIdle /\ AudioIdle /\ CleanupIdle /\ CheckpointIdle
SpecChapters ==
    /\ InitChapters
    /\ [][ChaptersNext]_vars

ConvertRest == UNCHANGED <<seg_vars, rom_vars, f_vars, ch_vars, au_vars, cl_vars, ck_vars>>
ConvertNext ==
    \/ SetFormattedNumber /\ ConvertRest
    \/ NormalizeText /\ ConvertRest
    \/ Math2Words /\ ConvertRest
    \/ Clock2Words /\ ConvertRest
    \/ Year2Words /\ ConvertRest
InitConvert == ConvertInit /\ SegIdle /\ RomIdle /\ FilterIdle /\ ChaptersIdle /\ AudioIdle /\ CleanupIdle /\ CheckpointIdle
SpecConvert ==
    /\ InitConvert
    /\ [][ConvertNext]_vars

AudioRest == UNCHANGED <<seg_vars, rom_vars, f_vars, ch_vars, cv_vars, cl_vars, ck_vars>>
AudioNext ==
    \/ AudioStart /\ AudioRest
    \/ AudioSentence /\ AudioRest
    \/ AudioCombine /\ AudioRest
InitAudio == AudioInit /\ SegIdle /\ RomIdle /\ FilterIdle /\ ChaptersIdle /\ CvIdle /\ CleanupIdle /\ CheckpointIdle
SpecAudio ==
    /\ InitAudio
    /\ [][AudioNext]_vars

CleanupRest == UNCHANGED <<seg_vars, rom_vars, f_vars, ch_vars, cv_vars, au_vars, ck_vars>>
CleanupNext ==
    \/ Categorize /\ CleanupRest
    \/ Select /\ CleanupRest
    \/ DeleteSession /\ CleanupRest
    \/ CleanupComplete /\ CleanupRest
InitCleanup == CleanupInit /\ SegIdle /\ RomIdle /\ FilterIdle /\ ChaptersIdle /\ CvIdle /\ AudioIdle /\ CheckpointIdle
SpecCleanup ==
    /\ InitCleanup
    /\ [][CleanupNext]_vars

CheckpointRest ==
    UNCHANGED <<seg_vars, rom_vars, f_vars, ch_vars, cv_vars, au_vars, cl_vars>>
CheckpointNext ==
    \/ \E w \in Workers : Call(w) /\ CheckpointRest
    \/ \E w \in Workers : Acquire(w) /\ CheckpointRest
    \/ \E w \in Workers : AcquireTimeout(w) /\ CheckpointRest
    \/ \E w \in Workers : Load(w) /\ CheckpointRest
    \/ \E w \in Workers : Set(w) /\ CheckpointRest
    \/ \E w \in Workers : ReleaseGet(w) /\ CheckpointRest
    \/ \E w \in Workers : ReleaseDelete(w) /\ CheckpointRest
    \/ LockExpires /\ CheckpointRest
InitCheckpoint == CheckpointInit /\ SegIdle /\ RomIdle /\ FilterIdle /\ ChaptersIdle /\ CvIdle /\ AudioIdle /\ CleanupIdle
SpecCheckpoint ==
    /\ InitCheckpoint
    /\ [][CheckpointNext]_vars

(***************************************************************************)
(* Properties of get_sentences.                                            *)
(***************************************************************************)
SegDone == seg_pc = "done" /\ seg_out.ok

\* C1: for an alphabetic language, every element of the list returned by
\* get_sentences that is not a marker is at most the budget
\* (max_chars - 4) characters long.
C1_BudgetRespected ==
    (SegDone /\ seg_lang \in AlphabeticLangs) =>
        \A i \in 1..Len(seg_out.list) :
            ~IsSml(seg_out.list[i]) => Len(seg_out.list[i]) <= Budget(seg_lang)

RECURSIVE TextSkeleton(_, _)
\* The markers of a text (found scanning from the left) and its letters and
\* digits, in order; every other character is left out.
TextSkeleton(s, i) ==
    IF i > Len(s) THEN <<>>
    ELSE IF StartsWithAt(s, i, TTS_SML_break)
         THEN <<TTS_SML_break>> \o TextSkeleton(s, i + Len(TTS_SML_break))
    ELSE IF StartsWithAt(s, i, TTS_SML_pause)
         THEN <<TTS_SML_pause>> \o TextSkeleton(s, i + Len(TTS_SML_pause))
    ELSE (IF IsAlnum(s[i]) THEN <<<<s[i]>>>> ELSE <<>>) \o TextSkeleton(s, i + 1)

RECURSIVE ListSkeleton(_)
\* The same of a list of sentences: an element that is a marker counts as
\* that marker, any other element gives its letters and digits.
ListSkeleton(list) ==
    IF list = <<>> THEN <<>>
    ELSE LET e == Head(list)
             alnum == SelectSeq(e, IsAlnum)
         IN  (IF e = TTS_SML_break \/ e = TTS_SML_pause THEN <<e>>
              ELSE [k \in 1..Len(alnum) |-> <<alnum[k]>>])
             \o ListSkeleton(Tail(list))

RECURSIVE StrayDelimiter(_, _)
\* The text holds a marker delimiter outside every marker occurrence.
StrayDelimiter(s, i) ==
    IF i > Len(s) THEN FALSE
    ELSE IF StartsWithAt(s, i, TTS_SML_break) THEN StrayDelimiter(s, i + Len(TTS_SML_break))
    ELSE IF StartsWithAt(s, i, TTS_SML_pause) THEN StrayDelimiter(s, i + Len(TTS_SML_pause))
    ELSE s[i] = "~" \/ StrayDelimiter(s, i + 1)

MarkersKept ==
    /\ ListSkeleton(seg_out.list) = TextSkeleton(seg_text, 1)
    /\ \A i \in 1..Len(seg_out.list) :
           (seg_out.list[i] # TTS_SML_break /\ seg_out.list[i] # TTS_SML_pause) =>
               /\ ~Contains(seg_out.list[i], TTS_SML_break)
               /\ ~Contains(seg_out.list[i], TTS_SML_pause)

C23_ElementsHoldAlnum ==
    SegDone =>
        \A i \in 1..Len(seg_out.list) :
            ~IsSml(seg_out.list[i]) =>
                Strip(seg_out.list[i]) # <<>> /\ HasAlnum(seg_out.list[i])

\* The pieces of an oversized item of stage 3
SoftParts(s) == SelectSeq(split_inclusive(s, punctuation_split_soft_set), NonEmpty)

\* The buffer and the units flushed when piece k of the item comes
SoftBefore(s, k, max_chars) ==
    SoftFold([buffer |-> <<>>, out |-> <<>>], SubSeq(SoftParts(s), 1, k - 1), max_chars)

\* Appending the piece to the buffer would overflow the budget.
SoftOverflows(buffer, part, max_chars) ==
    Len(buffer) + (IF buffer = <<>> THEN 0 ELSE 1) + Len(part) > max_chars

\* The last character of the buffer that is not a space is a soft
\* punctuation mark.
EndsInSoftPunctuation(buffer) ==
    \E i \in 1..Len(buffer) :
        /\ buffer[i] \in punctuation_split_soft_set
        /\ \A k \in (i + 1)..Len(buffer) : buffer[k] = " "

\* What the claim says of an overflow: the whole buffer is flushed when it
\* ends in soft punctuation; otherwise its prefix up to its last soft
\* punctuation (nothing, when it holds none) is flushed and the remainder
\* goes before the piece.
ClaimedFlush(st, part) ==
    IF EndsInSoftPunctuation(st.buffer)
    THEN [buffer |-> part, out |-> Append(st.out, st.buffer)]
    ELSE LET soft == {i \in 1..Len(st.buffer) :
                         st.buffer[i] \in punctuation_split_soft_set}
             last == IF soft = {} THEN 0 ELSE CHOOSE i \in soft : \A k \in soft : k <= i
             remainder == Strip(SubSeq(st.buffer, last + 1, Len(st.buffer)))
         IN  [buffer |-> IF remainder = <<>> THEN part ELSE remainder \o <<" ">> \o part,
              out |-> Append(st.out, Strip(SubSeq(st.buffer, 1, last)))]

\* The oversized items of stage 3
SoftOversized(text, max_chars) ==
    SelectSeq(hard_list(sml_list(text), max_chars),
              LAMBDA s : ~IsSml(s) /\ Len(s) > max_chars)

\* C24: in the soft-punctuation stage, whenever appending the next piece
\* would overflow the budget, a buffer that ends in soft punctuation is
\* flushed whole as one unit and the piece starts a new buffer; any other
\* buffer has its prefix up to and including its last soft punctuation
\* flushed as one unit and its remainder carried forward, before the piece.
C24_OverflowFlush ==
    SegDone =>
        \A n \in 1..Len(SoftOversized(seg_text, Budget(seg_lang))) :
            \A k \in 1..Len(SoftParts(SoftOversized(seg_text, Budget(seg_lang))[n])) :
                LET s == SoftOversized(seg_text, Budget(seg_lang))[n]
                    st == SoftBefore(s, k, Budget(seg_lang))
                IN  SoftOverflows(st.buffer, SoftParts(s)[k], Budget(seg_lang)) =>
                        SoftStep(st, SoftParts(s)[k], Budget(seg_lang))
                            = ClaimedFlush(st, SoftParts(s)[k])

\* A text has been segmented in which a piece overflowed a buffer that
\* ended in soft punctuation, and the buffer was flushed as a unit.
C24_Witness ==
    /\ SegDone
    /\ \E n \in 1..Len(SoftOversized(seg_text, Budget(seg_lang))) :
        \E k \in 2..Len(SoftParts(SoftOversized(seg_text, Budget(seg_lang))[n])) :
            LET s == SoftOversized(seg_text, Budget(seg_lang))[n]
                st == SoftBefore(s, k, Budget(seg_lang))
            IN  /\ SoftOverflows(st.buffer, SoftParts(s)[k], Budget(seg_lang))
                /\ EndsInSoftPunctuation(st.buffer)
                /\ HasAlnum(st.buffer)
                /\ \E i \in 1..Len(seg_out.list) : seg_out.list[i] = st.buffer

\* `a` is `b` with elements left out.
IsSubSeq(a, b) ==
    LET RECURSIVE Sub(_, _)
        Sub(i, j) ==
            IF i > Len(a) THEN TRUE
            ELSE IF j > Len(b) THEN FALSE
            ELSE IF a[i] = b[j] THEN Sub(i + 1, j + 1)
            ELSE Sub(i, j + 1)
    IN  Sub(1, 1)

RECURSIVE WordsOf(_)
\* The words of the elements of a list that are not markers, in order: the
\* runs of characters other than the space.
WordsOf(list) ==
    IF list = <<>> THEN <<>>
    ELSE (IF IsSml(Head(list)) THEN <<>>
          ELSE SelectSeq(SplitSpaceFrom(Head(list), 1, 1), NonEmpty))
         \o WordsOf(Tail(list))

\* C25: for an alphabetic language get_sentences neither loses, duplicates
\* nor reorders text: the words of the returned elements that are not
\* markers, in order, are the words of the text with its markers removed,
\* except words without a letter or digit (the words of the pieces dropped
\* for holding none).
C25_WordsPreserved ==
    (SegDone /\ seg_lang \in AlphabeticLangs) =>
        /\ IsSubSeq(WordsOf(seg_out.list), WordsOf(SmlSplitFrom(seg_text, 1, 1)))
        /\ SelectSeq(WordsOf(seg_out.list), HasAlnum)
               = SelectSeq(WordsOf(SmlSplitFrom(seg_text, 1, 1)), HasAlnum)

\* An English text over the budget has been segmented: its words with a
\* letter or digit are in the result, and a piece without any was dropped.
C25_Witness ==
    /\ SegDone /\ seg_lang \in AlphabeticLangs
    /\ Len(seg_text) > Budget(seg_lang)
    /\ SelectSeq(WordsOf(seg_out.list), HasAlnum) # <<>>
    /\ Len(WordsOf(seg_out.list)) < Len(WordsOf(SmlSplitFrom(seg_text, 1, 1)))

\* The tokens that reach the final assembly of an ideogrammatic language
AssemblyTokens(text, max_chars) ==
    IdgTokens(soft_list(hard_list(sml_list(text), max_chars), max_chars))

RECURSIVE Assembled(_, _, _)
\* The units are the tokens taken in order, each unit either one marker
\* token or the concatenation of tokens that follow each other without a
\* marker among them, within the budget unless it is a single token.
Assembled(units, tokens, max_chars) ==
    IF units = <<>> THEN tokens = <<>>
    ELSE IF tokens = <<>> THEN FALSE
    ELSE IF IsSml(Strip(Head(tokens)))
    THEN Head(units) = Head(tokens) /\ Assembled(Tail(units), Tail(tokens), max_chars)
    ELSE \E n \in 1..Len(tokens) :
            /\ \A k \in 1..n : ~IsSml(Strip(tokens[k]))
            /\ Head(units) = Flatten(SubSeq(tokens, 1, n))
            /\ (n = 1 \/ Len(Head(units)) <= max_chars)
            /\ Assembled(Tail(units), SubSeq(tokens, n + 1, Len(tokens)), max_chars)

\* C26: in the final assembly for an ideogrammatic language every unit is
\* either exactly one marker token or the concatenation of consecutive
\* tokens that are not markers and lie between two markers, and such a
\* concatenation is at most the budget long unless it is one token that is
\* itself longer.
C26_UnitsAreTokenRuns ==
    (SegDone /\ seg_lang \in IdeogrammaticLangs) =>
        Assembled(seg_out.list, AssemblyTokens(seg_text, Budget(seg_lang)),
                  Budget(seg_lang))

\* A text of an ideogrammatic language has been assembled into a marker and
\* units of several tokens, one of them closed because the next token would
\* have gone over the budget.
C26_Witness ==
    /\ SegDone /\ seg_lang \in IdeogrammaticLangs
    /\ Len(AssemblyTokens(seg_text, Budget(seg_lang))) > Len(seg_out.list) + 1
    /\ \E i \in 1..Len(seg_out.list) : IsSml(seg_out.list[i])
    /\ \E i \in 1..(Len(seg_out.list) - 1) :
           /\ ~IsSml(seg_out.list[i]) /\ ~IsSml(seg_out.list[i + 1])
           /\ Len(seg_out.list[i]) <= Budget(seg_lang)
           /\ Len(seg_out.list[i]) + Len(seg_out.list[i + 1]) > Budget(seg_lang)

(***************************************************************************)
(* Properties of roman2number.                                             *)
(***************************************************************************)
IsRomanLetter(c) == Upper(c) \in DOMAIN roman_values

\* C5: roman2number returns a text: a text that is one roman numeral comes
\* back as the decimal digits of its value, a text without a roman letter
\* comes back unchanged.
C5_RomanTextToText ==
    rom_pc = "done" =>
        /\ rom_out.kind = "str"
        /\ (rom_text # <<>> /\ \A i \in 1..Len(rom_text) : IsRomanLetter(rom_text[i]))
               => rom_out.text = Decimal(roman2number(StrVal(rom_text)).val)
        /\ (\A i \in 1..Len(rom_text) : ~IsRomanLetter(rom_text[i]))
               => rom_out.text = rom_text

(***************************************************************************)
(* Properties of filter_chapter.                                           *)
(***************************************************************************)
FilterDone == f_pc = "done"

\* A chapter with narrative text and no excluded semantic type
Narrative(doc) ==
    /\ ~doc.raises
    /\ doc.body
    /\ HasAlnum(GetText(doc.children))
    /\ ~is_excluded([k \in 1..Len(doc.body_type) |-> Lower(doc.body_type[k])])
    /\ ~(doc.section
         /\ is_excluded([k \in 1..Len(doc.section_type) |-> Lower(doc.section_type[k])]))

\* C3: for a chapter that is not of an excluded type and has narrative text,
\* in a known language and without the date stage, filter_chapter returns a
\* non-empty list of sentences.
C3_NarrativeChapterYieldsSentences ==
    (FilterDone /\ Narrative(f_doc) /\ f_lang \in DOMAIN language_mapping /\ ~f_stanza)
        => (f_result.kind = "list" /\ f_result.list # <<>>)

AdjacentSameMarker(list) ==
    \E i \in 1..(Len(list) - 1) : IsSml(list[i]) /\ list[i + 1] = list[i]

\* C4: the list the chapter is flattened to never holds two adjacent
\* identical markers.
C4_NoAdjacentIdenticalMarkers == ~AdjacentSameMarker(clean_list)

\* C6: filter_chapter ends by returning a list or None: no exception and
\* no end of the process reaches its caller.
C6_NothingEscapes == FilterDone => f_result.kind \in {"list", "none"}

StructuralEmptiness == {"excluded", "empty_body", "no_tuples", "no_text"}

\* C8: a call that ends for structural emptiness returns a value other than
\* None, the value returned when a stage fails.
C8_EmptinessIsNotFailure ==
    (FilterDone /\ f_cause \in StructuralEmptiness) => f_result # NoneResult

\* The body carries an excluded type, or it carries none and the section does
CarriesExcludedType(doc) ==
    LET of_body == [k \in 1..Len(doc.body_type) |-> Lower(doc.body_type[k])]
        of_section == [k \in 1..Len(doc.section_type) |-> Lower(doc.section_type[k])]
    IN  \/ is_excluded(of_body)
        \/ of_body = <<>> /\ doc.section /\ is_excluded(of_section)

\* C9: a chapter whose body, or else its section, carries an excluded
\* semantic type makes filter_chapter return the empty list, whatever the
\* body contains.
C9_ExcludedTypeReturnsEmptyList ==
    (FilterDone /\ ~f_doc.raises /\ f_doc.body /\ CarriesExcludedType(f_doc))
        => f_result = ListResult(<<>>)

\* C9: a body of narrative text without a type, in a section of type toc,
\* has been filtered to the empty list.
C9_Witness ==
    /\ FilterDone
    /\ f_doc.body_type = <<>> /\ f_doc.section /\ f_doc.section_type = Toc
    /\ HasAlnum(GetText(f_doc.children))
    /\ Len(f_doc.children) = MaxNodes
    /\ f_cause = "excluded"
    /\ f_result = ListResult(<<>>)

TokenFailures == {"ordinal", "number"}

\* C10: the conversion of a single token (an ordinal, a number) is never
\* what makes a chapter fail.
C10_TokenFailureStaysLocal == f_cause \notin TokenFailures

\* The lines the claim gives the rows of a table after the first: the
\* headers paired with the values when the row has as many data cells as
\* the first row has cells, the values alone otherwise.
ClaimedLines(rows) ==
    LET headers == CellTexts(rows[1], {"td", "th"})
        Line(row) ==
            LET values == CellTexts(row, {"td"})
            IN  IF Len(values) = Len(headers)
                THEN Join([k \in 1..Len(values) |->
                              headers[k] \o <<":", " ">> \o values[k]], Sep)
                ELSE Join(values, Sep)
    IN  [r \in 1..(Len(rows) - 1) |-> Line(rows[r + 1])]

\* C19: in the flattened text stream of a chapter every row after the first
\* of every table gives exactly one line, `H1: V1 ^ H2: V2` when it has as
\* many data cells as there are headers and its values alone otherwise, and
\* the header row gives no line: each such line is in the stream as many
\* times as there are rows that give it.
C19_TableRowsBecomeLines ==
    f_pc = "dates" =>
        LET tables == {k \in 1..Len(tuples_list) : tuples_list[k].typ = "table"}
            rows == {p \in tables \X (1..3) :
                        p[2] <= Len(ClaimedLines(tuples_list[p[1]].table))}
            line(p) == ClaimedLines(tuples_list[p[1]].table)[p[2]]
        IN  \A p \in rows :
                Cardinality({i \in 1..Len(text_list) : text_list[i] = line(p)})
                    = Cardinality({q \in rows : line(q) = line(p)})

\* C16: when no recognizer is configured, the date stage still converts
\* every 4-digit year and every ordinal day of the text, globally: none is
\* left in the text that goes on to the conversions.
C16_GlobalDateFallback ==
    (f_pc = "convert" /\ ~f_stanza) =>
        /\ \A i \in 1..Len(f_text) : YearEnd(f_text, i) = 0
        /\ ~re_ordinal_search(f_text)

RECURSIVE ClaimedTuples(_, _)
\* The traversal as the claim has it: a paragraph or a line break gives a
\* BREAK after what it holds, unless the last text character given so far
\* is a letter, a digit or white space; everything else as tuple_row.
ClaimedChild(child, last) ==
    IF child.kind = "text" \/ child.name \in heading_tags \/ child.name = "table"
    THEN ChildTuples(child, last)
    ELSE IF child.name \in break_tags
    THEN IF LastTextChar(ClaimedTuples(child.children, last), last) # ""
            /\ (\/ IsAlnum(LastTextChar(ClaimedTuples(child.children, last), last))
                \/ IsSpace(LastTextChar(ClaimedTuples(child.children, last), last)))
         THEN ClaimedTuples(child.children, last)
         ELSE Append(ClaimedTuples(child.children, last), Tuple("break", TTS_SML_break))
    ELSE IF child.name \in pause_tags /\ ClaimedTuples(child.children, last) # <<>>
    THEN Append(ClaimedTuples(child.children, last), Tuple("pause", TTS_SML_pause))
    ELSE ClaimedTuples(child.children, last)

ClaimedTuples(children, last) ==
    IF children = <<>> THEN <<>>
    ELSE ClaimedChild(Head(children), last)
         \o ClaimedTuples(Tail(children),
                          LastTextChar(ClaimedChild(Head(children), last), last))

\* C27: in the traversal of the markup every paragraph and every line break
\* (<br>) gives a BREAK at its place, unless the last text character given
\* before it is a letter, a digit or white space, and then it gives none.
C27_BreakAtEveryParagraphAndLineBreak ==
    (f_pc = "flatten" \/ (f_pc = "done" /\ f_cause = "no_tuples")) =>
        tuples_list = ClaimedTuples(f_doc.children, "")

\* C28: an element equal to a control marker arises only from the
\* structure of the document (the break and pause elements): narrative text
\* that holds the literal marker string is never turned into a marker
\* element, so the flattened list holds no more marker elements than the
\* traversal gave break and pause items.
C28_MarkersOnlyFromStructure ==
    f_pc = "dates" =>
        Cardinality({i \in 1..Len(clean_list) : IsSml(clean_list[i])})
            <= Cardinality({k \in 1..Len(tuples_list) :
                               tuples_list[k].typ \in {"break", "pause"}})

(***************************************************************************)
(* Properties of get_chapters.                                             *)
(***************************************************************************)
\* The sentences of every document that has some, in spine order
AllSentences(docs) ==
    LET with_sentences == SelectSeq(docs, LAMBDA r : r.kind = "list" /\ r.list # <<>>)
    IN  [k \in 1..Len(with_sentences) |-> with_sentences[k].list]

C11_BudgetLookupNeverFails == seg_pc = "done" => seg_out.ok

\* The number of sentences of a text: the hard punctuation marks that are
\* followed by a space or by the end of the text and close a piece holding a
\* letter or a digit.
SentenceCount(s) ==
    LET RECURSIVE Count(_, _)
        Count(start, j) ==
            IF j > Len(s) THEN 0
            ELSE IF /\ s[j] \in punctuation_split_hard_set
                    /\ (j = Len(s) \/ s[j + 1] = " ")
                    /\ HasAlnum(SubSeq(s, start, j))
                 THEN 1 + Count(j + 1, j + 1)
                 ELSE Count(start, j + 1)
    IN  Count(1, 1)

\* C17: get_sentences splits an English text of two or more sentences, each
\* closed by hard punctuation and followed by a space or the end of the
\* text, into at least two elements, also when the whole text is within the
\* budget.
C17_SentencesAreSplit ==
    (SegDone /\ seg_lang = "eng" /\ ~Contains(seg_text, <<"~">>)
        /\ SentenceCount(seg_text) >= 2) =>
        Len(seg_out.list) >= 2

\* The items of stage 1 that stage 2 lets pass: the markers and the items
\* within the budget.
WithinBudget(s) == IsSml(s) \/ Len(s) <= Budget(seg_lang)

ConvertDone(fn) == cv_pc = "done" /\ cv_fn = fn

\* C12: set_formatted_number returns unchanged a digit string of more than
\* 18 digits: no part of it is converted, truncated or split off.
C12_LongDigitStringUnchanged ==
    (ConvertDone("set_formatted_number")
        /\ Len(cv_text) > MaxGroupDigits /\ \A k \in 1..Len(cv_text) : IsDigit(cv_text[k])) =>
        cv_out = Converted(cv_text)

\* C13: normalize_text is idempotent: normalizing a normalized text gives
\* the same text again.
C13_NormalizeIdempotent ==
    ConvertDone("normalize_text") =>
        normalize_text(cv_out.text, cv_lang) = cv_out.text

\* An ambiguous symbol stands at i between two numbers, with no character
\* other than a space next to the expression.
BetweenNumbers(s, i) ==
    LET RECURSIVE Left(_)
        \* the start of the digits and spaces that end before i, 0 when no digit
        Left(k) == IF IsSpace(At(s, k)) THEN Left(k - 1)
                   ELSE IF IsDigit(At(s, k)) THEN k ELSE 0
        RECURSIVE DigitsStart(_)
        DigitsStart(k) == IF IsDigit(At(s, k - 1)) THEN DigitsStart(k - 1) ELSE k
        l == Left(i - 1)
        j == SpacesEnd(s, i + 1) + 1
        e == DigitsEnd(s, j)
    IN  /\ s[i] \in ambiguous_symbols
        /\ l > 0 /\ At(s, DigitsStart(l) - 1) \in {"", " "}
        /\ e >= j /\ At(s, e + 1) \in {"", " "}

\* An ambiguous symbol stands at i before a number, with no character other
\* than a space next to the expression.
BeforeNumber(s, i) ==
    LET j == SpacesEnd(s, i + 1) + 1
        e == DigitsEnd(s, j)
    IN  /\ s[i] \in ambiguous_symbols
        /\ At(s, i - 1) \in {"", " "}
        /\ e >= j /\ At(s, e + 1) \in {"", " "}

\* C15: math2words replaces an ambiguous symbol by its word in both
\* contexts, between two numbers and before a number, and leaves the
\* ambiguous symbols of a text alone when none stands in such a context.
C15_AmbiguousSymbolsInContext ==
    ConvertDone("math2words") =>
        LET symbols(s) == SelectSeq(s, LAMBDA c : c \in ambiguous_symbols)
            InContext(i) == BetweenNumbers(cv_text, i) \/ BeforeNumber(cv_text, i)
        IN  /\ \A i \in 1..Len(cv_text) :
                   InContext(i) =>
                       Contains(cv_out.text, language_math_phonemes[cv_text[i]])
            /\ (\A i \in 1..Len(cv_text) : ~InContext(i)) =>
                   symbols(cv_out.text) = symbols(cv_text)

\* The half-past phrase of a language for the hour named by `word`.
HalfPast(lang, word) ==
    LET template == language_clock[lang].half_past
    IN  Flatten([k \in 1..Len(template) |->
                    IF template[k] \in {"hour", "next_hour"} THEN word
                    ELSE <<template[k]>>])

\* C14: for every time H:30 with 13 <= H <= 23, clock2words renders the
\* half-past phrase with the hour of the 12-hour clock, H - 12, or H - 11 in
\* a language that names the next hour, never with H itself.
C14_HalfPastTwelveHourClock ==
    \A H \in 13..23 :
        (ConvertDone("clock2words") /\ cv_lang \in DOMAIN language_clock
            /\ cv_text = Decimal(H) \o <<":", "3", "0">>) =>
            LET hour == IF cv_lang = "deu" THEN H - 11 ELSE H - 12
                word == IF cv_compat THEN Words(hour) ELSE Spell(Decimal(hour))
            IN  cv_out.text = HalfPast(cv_lang, word)

\* C20: year2words converts a string of exactly four digits whose last two
\* digits are 10 or more as two groups, the first two digits and the last
\* two, and every other string of digits as one whole number; without word
\* generation each group, or the whole string, is read character by
\* character through the phoneme map.
C20_YearGroupsOrWholeNumber ==
    (ConvertDone("year2words") /\ ~IntRaises(cv_text)) =>
        LET read(group) == IF cv_compat THEN Words(IntOf(group)) ELSE Spell(group)
            groups == Len(cv_text) = 4 /\ IntOf(SubSeq(cv_text, 3, 4)) >= 10
        IN  cv_out = Converted(IF groups
                               THEN read(SubSeq(cv_text, 1, 2)) \o <<" ">>
                                        \o read(SubSeq(cv_text, 3, 4))
                               ELSE read(cv_text))

(***************************************************************************)
(* Properties of convert_chapters2audio.                                   *)
(***************************************************************************)
AudioSucceeded == au_pc = "done" /\ au_result = "true"

\* C21: a resumed run converts every sentence whose audio file is missing,
\* a gap below the highest existing number included, and converts again no
\* sentence below the resume point whose file exists: after a successful
\* run every sentence number from 0 to N - 1 has an audio file.
C21_ResumeFillsEveryGap ==
    AudioSucceeded =>
        LET all == 0..(TotalSentences(au_chapters) - 1)
        IN  /\ all \ au_existing \subseteq au_converted
            /\ \A n \in au_existing : n < resume_sentence => n \notin au_converted
            /\ all \subseteq au_sentence_files


\* The numbers of the sentences of chapter x: the sentences are numbered
\* from 0 through the chapters, the markers have no number.
ChapterSentences(x) ==
    LET first == TotalSentences(SubSeq(au_chapters, 1, x - 1))
    IN  first..(first + SentencesCount(au_chapters[x]) - 1)

\* C30: the inclusive range [start, end] handed to combine_audio_sentences
\* for a chapter is exactly the set of the numbers of that chapter's
\* sentences, so the ranges of the chapters are disjoint and follow each
\* other, also for a first chapter of one sentence and for a chapter that
\* holds markers only.
C30_RangeIsChapterSentences ==
    \A k \in 1..Len(au_ranges) :
        (au_ranges[k].start)..(au_ranges[k].end) = ChapterSentences(au_ranges[k].chapter)


(***************************************************************************)
(* Properties of cleanup_old_sessions.                                     *)
(***************************************************************************)
\* C22: cleanup_old_sessions never deletes a session whose stored session
\* data has the status converting, whatever its completed flag, its age,
\* its place in the index and the number of incomplete sessions to keep.
C22_ConvertingNeverDeleted ==
    \A session_id \in cl_deleted : cl_disk[session_id] # "converting"


(***************************************************************************)
(* Properties of the distributed checkpoint manager.                       *)
(***************************************************************************)
\* C29: under every interleaving and every delay of the workers that call
\* mark_chapter_complete, mark_chapter_failed and save_checkpoint on one
\* session no update is lost: once mark_chapter_complete(c) has returned, c
\* is in converted_chapters of the stored checkpoint, and stays there.
C29_NoLostUpdate ==
    \A c \in ck_returned : c \in ck_stored.converted_chapters

====
